---- MODULE Spec2Model ----
(***************************************************************************)
(* Workflow engine of the project/task tool (ProjectService) over its      *)
(* relational store: projects, project_tasks, task_status_history,         *)
(* project_task_dependencies and the tables of the rows a project owns;    *)
(* and the process supervisor (task runner): the recovery of its state     *)
(* file and the service that starts and stops the child processes.         *)
(*                                                                         *)
(* Spec      runs the action methods one at a time: every action is one    *)
(*           whole handler, all of its storage calls included.             *)
(* SpecNext  runs task_next, task_dep_add and task_dep_remove over tasks   *)
(*           that the action methods have put in every status.             *)
(* SpecRace  runs two invocations whose storage calls interleave: every    *)
(*           action is one storage call (one await) of a handler.          *)
(* SpecCmd   runs cmd_add, cmd_update, cmd_remove, cmd_lock and cmd_unlock *)
(*           on the commands of one project.                               *)
(* SpecProject runs project_create, project_update and project_delete on   *)
(*           one project id.                                               *)
(* SpecDelete runs project_create and project_delete on two project ids,   *)
(*           with the methods that add the rows a project owns.            *)
(* SpecRecover runs recoverTaskRunnerState over state files, well-formed   *)
(*           or not, while the processes of the records end.               *)
(* SpecMix   is SpecRace with the two invocations drawn from all pairs of  *)
(*           action methods.                                               *)
(* SpecCmdRace runs cmd_update or cmd_remove against cmd_lock on one       *)
(*           command, one storage call at a time.                          *)
(* SpecProjectRace runs two project_update calls on one project, one       *)
(*           storage call at a time.                                       *)
(* SpecRunner runs init, start and stop of the service: start is a call in *)
(*           steps (the stops, then the spawn) that the exits of the       *)
(*           children interleave with.                                     *)
(***************************************************************************)
EXTENDS Integers, Sequences, FiniteSets, TLC

VARIABLES
    projects,                   \* table projects: function from id to row
    project_links,              \* table project_links: function from id to row
    project_commands,           \* table project_commands: function from id to row
    project_memory,             \* table project_memory: function from id to row
    project_tasks,              \* table project_tasks: function from id to row
    task_status_history,        \* table task_status_history: rows in insertion order
    project_task_dependencies,  \* table project_task_dependencies: set of <<task_id, depends_on_id>>
    task_attempts,              \* table task_attempts: function from id to row
    auto_increment,             \* the AUTO_INCREMENT counter of each table keyed by one
    result,                     \* what the last finished call returned or threw
    calls,                      \* SpecRace: the in-flight invocations, one per caller
    stateFile,                  \* task runner: what state.json holds
    alive,                      \* task runner: the pids process.kill(pid, 0) finds
    taskRunnerState,            \* task runner: the TaskRunnerStateFile the service holds
    children,                   \* task runner: the child processes the service has handles of
    starting,                   \* task runner: the call of start that is in flight
    returned,                   \* task runner: what the last call returned or threw
    clock,                      \* task runner: Date.now()
    spawned                     \* task runner: how many children the service has spawned

vars == <<projects, project_links, project_commands, project_memory, project_tasks,
          task_status_history, project_task_dependencies, task_attempts, auto_increment,
          result, calls, stateFile, alive, taskRunnerState, children, starting, returned, clock,
          spawned>>

\* the variables of the task runner
runner == <<stateFile, alive, taskRunnerState, children, starting, returned, clock,
          spawned>>

\* the tables the workflow actions of a task neither read nor write
others == <<project_links, project_commands, project_memory, task_attempts, auto_increment>>

-----------------------------------------------------------------------------
(* Bounds of the model *)

\* rows of project_tasks
MaxTasks == 1

\* rows of task_status_history
MaxHistory == 7

\* rows of project_tasks in SpecNext
MaxNextTasks == 2

\* rows of project_tasks in SpecRace
MaxRaceTasks == 1

\* rows ever inserted in project_commands in SpecCmd
MaxCommands == 2

\* rows ever inserted in project_tasks in SpecDelete
MaxOwnedTasks == 2

\* rows ever inserted in each other table in SpecDelete
MaxOwned == 1

\* passes of recoverTaskRunnerState in SpecRecover
MaxPasses == 3

\* children spawned in SpecRunner
MaxSpawns == 2

-----------------------------------------------------------------------------
(* Values *)

NULL == "NULL"

\* the project of Spec, SpecNext and SpecRace
TheProject == "P1"

\* the projects row that owns the tasks of Spec, SpecNext and SpecRace
project == projects[TheProject]

\* a table without rows
NoRows == <<>>

\* the counters of a database in which nothing was inserted yet
NoInserts ==
    [project_links |-> 0, project_commands |-> 0, project_memory |-> 0,
     project_tasks |-> 0, task_attempts |-> 0]

\* the tables others hold no row: Spec, SpecNext and SpecRace run on the tasks of
\* one project and leave them alone
NoOthers ==
    /\ project_links = NoRows
    /\ project_commands = NoRows
    /\ project_memory = NoRows
    /\ task_attempts = NoRows
    /\ auto_increment = NoInserts

\* a TaskRecord without pid (recovery reads a pid that is missing, 0 or no number
\* the same way: !pid)
NoPid == 0

\* a TaskRecord without endedAt (Date.now() is never 0)
NoTime == 0

\* no state.json (text "empty": a file of no bytes; "json": one that parses)
NoFile == [text |-> "none", version |-> 1, updatedAt |-> NoTime, tasksIsObject |-> TRUE,
           tasksIsNull |-> FALSE, tasks |-> <<>>]

\* the service before init(): no TaskRunnerStateFile loaded
NotLoaded == [version |-> 0, updatedAt |-> NoTime, tasks |-> <<>>]

\* no call of start in flight
NotStarting == [pc |-> "idle"]

\* no call has returned yet
NoReturn == [op |-> "none"]

\* no task runner: Spec, SpecNext, SpecRace, SpecCmd, SpecProject and SpecDelete
\* run the project service alone
NoRunner ==
    /\ stateFile = NoFile
    /\ alive = {}
    /\ taskRunnerState = NotLoaded
    /\ children = {}
    /\ starting = NotStarting
    /\ returned = NoReturn
    /\ clock = 0
    /\ spawned = 0

TASK_STATUSES ==
    {"requirements", "implementing", "review_requested", "approved",
     "changes_requested", "merging", "merge_conflict", "building", "deploying",
     "done", "cancelled", "blocked"}

\* the values the column status_before_blocked can hold (besides NULL)
STATUS_BEFORE_BLOCKED_ENUM ==
    {"requirements", "implementing", "review_requested", "approved",
     "changes_requested", "merging", "merge_conflict", "building", "deploying"}

TASK_TYPES == {"feature", "bugfix", "iteration", "hotfix", "chore"}

\* a slip that would take chore for a type that needs no branch
TASK_TYPE_DEFAULTS_choreNoBranch(taskType) ==
    CASE taskType = "feature"   -> [requires_branching |-> TRUE,  requires_human_review |-> TRUE]
      [] taskType = "bugfix"    -> [requires_branching |-> TRUE,  requires_human_review |-> FALSE]
      [] taskType = "iteration" -> [requires_branching |-> FALSE, requires_human_review |-> TRUE]
      [] taskType = "hotfix"    -> [requires_branching |-> FALSE, requires_human_review |-> FALSE]
      [] taskType = "chore"     -> [requires_branching |-> FALSE, requires_human_review |-> FALSE]

TASK_TYPE_DEFAULTS(taskType) ==
    CASE taskType = "feature"   -> [requires_branching |-> TRUE,  requires_human_review |-> TRUE]
      [] taskType = "bugfix"    -> [requires_branching |-> TRUE,  requires_human_review |-> FALSE]
      [] taskType = "iteration" -> [requires_branching |-> FALSE, requires_human_review |-> TRUE]
      [] taskType = "hotfix"    -> [requires_branching |-> FALSE, requires_human_review |-> FALSE]
      [] taskType = "chore"     -> [requires_branching |-> TRUE,  requires_human_review |-> FALSE]

\* the declarative table of types.ts (no action method reads it)
TASK_STATUS_TRANSITIONS(from) ==
    CASE from = "requirements"      -> {"implementing"}
      [] from = "implementing"      -> {"review_requested", "approved"}
      [] from = "review_requested"  -> {"approved", "changes_requested"}
      [] from = "changes_requested" -> {"review_requested"}
      [] from = "approved"          -> {"merging"}
      [] from = "merging"           -> {"merge_conflict", "building", "deploying", "done"}
      [] from = "merge_conflict"    -> {"merging"}
      [] from = "building"          -> {"deploying", "done"}
      [] from = "deploying"         -> {"done"}
      [] OTHER                      -> {}

-----------------------------------------------------------------------------
(* The store *)

\* the database as a handler sees and changes it
Db(tasks, history) == [tasks |-> tasks, history |-> history]

\* a handler's outcome: the database it leaves, the error it throws ("" = returns)
\* and the functions of git.ts it has invoked
Ret(db, error) == [tasks |-> db.tasks, history |-> db.history, error |-> error, git |-> {}]

\* the handler (its outcome r) has awaited a function of git.ts, that ended in outcome
Invoked(r, fn, outcome) == [r EXCEPT !.git = @ \cup {[fn |-> fn, outcome |-> outcome]}]

Failed(r) == r.error # ""

TaskExists(db, taskId) == taskId \in DOMAIN db.tasks

\* a slip that would drop the status guard of the UPDATE
affectedRows_unguarded(db, taskId, allowedFrom) == IF TaskExists(db, taskId) THEN 1 ELSE 0

\* UPDATE project_tasks SET status=? WHERE id=? AND status IN (allowedFrom): rows matched
affectedRows(db, taskId, allowedFrom) ==
    IF TaskExists(db, taskId) /\ db.tasks[taskId].status \in allowedFrom THEN 1 ELSE 0

\* UPDATE project_tasks SET status=? WHERE id=? AND status IN (allowedFrom): the table after
UpdateStatus(db, taskId, toStatus, allowedFrom) ==
    IF affectedRows(db, taskId, allowedFrom) = 1
    THEN Db([db.tasks EXCEPT ![taskId].status = toStatus], db.history)
    ELSE db

\* a slip that would log the new status as from_status
HistoryRow_fromIsTo(taskId, from, to, reason) ==
    [task_id |-> taskId, from_status |-> to, to_status |-> to, reason |-> reason]

HistoryRow(taskId, from, to, reason) ==
    [task_id |-> taskId, from_status |-> from, to_status |-> to, reason |-> reason]

\* INSERT INTO task_status_history (task_id, from_status, to_status, actor, reason)
InsertHistory(db, taskId, from, to, reason) ==
    Db(db.tasks, Append(db.history, HistoryRow(taskId, from, to, reason)))

\* UPDATE project_tasks SET <columns> WHERE id=?  (no row: nothing happens)
UpdateColumns(db, taskId, row) ==
    IF TaskExists(db, taskId) THEN Db([db.tasks EXCEPT ![taskId] = row], db.history) ELSE db

\* transitionTaskStatus: load, conditional UPDATE, history row, reload
transitionTaskStatus(db, taskId, toStatus, allowedFrom, reason) ==
    IF ~TaskExists(db, taskId) THEN Ret(db, "Task not found")
    ELSE LET task == db.tasks[taskId] IN
         IF affectedRows(db, taskId, allowedFrom) # 1
         THEN Ret(db, "Task status transition failed")
         ELSE Ret(InsertHistory(UpdateStatus(db, taskId, toStatus, allowedFrom),
                                taskId, task.status, toStatus, reason), "")

-----------------------------------------------------------------------------
(* The action methods of ProjectService, as functions of the database:      *)
(* each returns the database it leaves and the error it throws.            *)

\* a slip that would prefer the deploy step to the build step
pickPostMergeStatus_deployFirst(task, proj) ==
    IF proj.has_deploy_step THEN "deploying"
    ELSE IF proj.has_build_step THEN "building"
    ELSE "done"

\* a slip that would send every merged task to the build
pickPostMergeStatus_alwaysBuilds(task, proj) == "building"

pickPostMergeStatus(task, proj) ==
    IF ~task.requires_branching
    THEN (IF proj.has_build_step THEN "building"
          ELSE IF proj.has_deploy_step THEN "deploying" ELSE "done")
    ELSE (IF proj.has_build_step THEN "building"
          ELSE IF proj.has_deploy_step THEN "deploying" ELSE "done")

\* asBool(value) of an input that is "true" or "false"
asBool(value) == value = "true"

\* input == null ? fallback : asBool(input)
InputOr(value, fallback) == IF value = NULL THEN fallback ELSE asBool(value)

\* the row INSERT INTO project_tasks creates (status and the nullable columns
\* take the schema's defaults)
NewTaskRow(projectId, id, taskType, requiresBranching, requiresHumanReview, priority, now) ==
    LET defaults == TASK_TYPE_DEFAULTS(IF taskType \in TASK_TYPES THEN taskType ELSE "feature") IN
    [id                    |-> id,
     project_id            |-> projectId,
     status                |-> "requirements",
     status_before_blocked |-> NULL,
     block_reason          |-> NULL,
     completed_at          |-> NULL,
     requires_branching    |-> InputOr(requiresBranching, defaults.requires_branching),
     requires_human_review |-> InputOr(requiresHumanReview, defaults.requires_human_review),
     priority              |-> priority,
     git_branch            |-> NULL,
     worktree_path         |-> NULL,
     created_at            |-> now]

task_add(db, projectId, taskType, requiresBranching, requiresHumanReview, priority, now) ==
    LET insertId == Len(db.tasks) + 1
        row == NewTaskRow(projectId, insertId, taskType, requiresBranching,
                          requiresHumanReview, priority, now)
    IN  Ret(InsertHistory(Db(Append(db.tasks, row), db.history),
                          insertId, NULL, "requirements", "task created"), "")

\* rows[0] ?? null: what task_next returns when no row is selected
NoTask == 0

task_next_statuses ==
    {"requirements", "implementing", "changes_requested", "review_requested", "approved",
     "merge_conflict"}

\* a slip that would ignore the dependencies
HasOpenDependency_none(tasks, deps, t) == FALSE

\* EXISTS (SELECT 1 FROM project_task_dependencies d JOIN project_tasks dep
\*         ON dep.id=d.depends_on_id WHERE d.task_id=t.id AND dep.status <> 'done')
HasOpenDependency(tasks, deps, t) ==
    \E d \in deps : d[1] = t /\ d[2] \in DOMAIN tasks /\ tasks[d[2]].status # "done"

\* the rows the WHERE clause of task_next selects
task_next_rows(tasks, deps) ==
    {t \in DOMAIN tasks :
        /\ tasks[t].status \in task_next_statuses
        /\ tasks[t].status # "blocked"
        /\ ~HasOpenDependency(tasks, deps, t)}

\* ORDER BY t.priority DESC, t.created_at ASC, t.id ASC
OrderedBefore(a, b) ==
    \/ a.priority > b.priority
    \/ a.priority = b.priority /\ a.created_at < b.created_at
    \/ a.priority = b.priority /\ a.created_at = b.created_at /\ a.id < b.id

\* LIMIT 1 of the ordered rows; the id of the row returned, NoTask for null
task_next(tasks, deps) ==
    LET rows == task_next_rows(tasks, deps) IN
    IF rows = {} THEN NoTask
    ELSE CHOOSE t \in rows : \A u \in rows \ {t} : OrderedBefore(tasks[t], tasks[u])

\* the dependencies task_dep_add leaves and the error it throws
task_dep_add(tasks, deps, taskId, dependsOnId) ==
    IF taskId = dependsOnId THEN [deps |-> deps, error |-> "A task cannot depend on itself"]
    ELSE IF taskId \notin DOMAIN tasks \/ dependsOnId \notin DOMAIN tasks
    THEN [deps |-> deps, error |-> "Task not found"]
    ELSE [deps |-> deps \cup {<<taskId, dependsOnId>>}, error |-> ""]

\* DELETE FROM project_task_dependencies WHERE task_id=? AND depends_on_id=?
task_dep_remove(deps, taskId, dependsOnId) == deps \ {<<taskId, dependsOnId>>}

\* a slip that would let task_start pull an approved task back
task_start_allowedFrom_reopens == {"requirements", "changes_requested", "approved"}

task_start_allowedFrom == {"requirements", "changes_requested"}

\* a slip that would undo the transition when the worktree step throws
task_start_rollsBack(db, proj, taskId, git) ==
    LET r == transitionTaskStatus(db, taskId, "implementing", task_start_allowedFrom,
                                  "task started")
    IN  IF Failed(r) THEN r
        ELSE LET task == r.tasks[taskId] IN
             IF ~task.requires_branching THEN r
             ELSE IF proj.workspace_path = NULL
             THEN Ret(db, "Project workspace_path required for branching tasks")
             ELSE IF git # "ok"
             THEN Invoked(Ret(db, "createWorktree failed"), "createWorktree", git)
             ELSE Invoked(Ret(UpdateColumns(r, taskId,
                                  [task EXCEPT !.git_branch = "task/{id}",
                                               !.worktree_path = "worktrees/task-{id}"]), ""),
                          "createWorktree", git)

\* a slip that would make a worktree for every task, branching or not
task_start_alwaysBranches(db, proj, taskId, git) ==
    LET r == transitionTaskStatus(db, taskId, "implementing", task_start_allowedFrom,
                                  "task started")
    IN  IF Failed(r) THEN r
        ELSE LET task == r.tasks[taskId] IN
             IF proj.workspace_path = NULL
             THEN Ret(r, "Project workspace_path required for branching tasks")
             ELSE IF git # "ok"
             THEN Invoked(Ret(r, "createWorktree failed"), "createWorktree", git)
             ELSE Invoked(Ret(UpdateColumns(r, taskId,
                                  [task EXCEPT !.git_branch = "task/{id}",
                                               !.worktree_path = "worktrees/task-{id}"]), ""),
                          "createWorktree", git)

\* git is the outcome of createWorktree: "ok" or "error"
task_start(db, proj, taskId, git) ==
    LET r == transitionTaskStatus(db, taskId, "implementing", task_start_allowedFrom,
                                  "task started")
    IN  IF Failed(r) THEN r
        ELSE LET task == r.tasks[taskId] IN
             IF ~task.requires_branching THEN r
             ELSE IF proj.workspace_path = NULL
             THEN Ret(r, "Project workspace_path required for branching tasks")
             ELSE IF git # "ok"
             THEN Invoked(Ret(r, "createWorktree failed"), "createWorktree", git)
             ELSE Invoked(Ret(UpdateColumns(r, taskId,
                                  [task EXCEPT !.git_branch = "task/{id}",
                                               !.worktree_path = "worktrees/task-{id}"]), ""),
                          "createWorktree", git)

\* a slip that would let any task be approved without a review
task_approve_allowedFrom_anyTask(task) ==
    {"review_requested", "implementing", "changes_requested"}

task_approve_allowedFrom(task) ==
    IF ~task.requires_human_review
    THEN {"review_requested", "implementing", "changes_requested"}
    ELSE {"review_requested"}

task_approve(db, taskId, reason) ==
    IF ~TaskExists(db, taskId) THEN Ret(db, "Task not found")
    ELSE transitionTaskStatus(db, taskId, "approved",
                              task_approve_allowedFrom(db.tasks[taskId]),
                              IF reason = NULL THEN "approved" ELSE reason)

\* a slip that would let a review be requested for work not yet started
task_request_review_allowedFrom_early == {"requirements", "implementing", "changes_requested"}

task_request_review_allowedFrom == {"implementing", "changes_requested"}

task_request_review(db, taskId) ==
    IF ~TaskExists(db, taskId) THEN Ret(db, "Task not found")
    ELSE IF ~db.tasks[taskId].requires_human_review
    THEN task_approve(db, taskId, "auto-approved")
    ELSE transitionTaskStatus(db, taskId, "review_requested",
                              task_request_review_allowedFrom, "review requested")

task_request_changes_allowedFrom == {"review_requested"}

task_request_changes(db, taskId) ==
    transitionTaskStatus(db, taskId, "changes_requested",
                         task_request_changes_allowedFrom, "changes requested")

\* a slip that would leave out the UPDATE of completed_at
SetCompletedAt_skipped(db, taskId) == db

\* UPDATE project_tasks SET completed_at=CURRENT_TIMESTAMP WHERE id=?
SetCompletedAt(db, taskId) ==
    IF TaskExists(db, taskId)
    THEN UpdateColumns(db, taskId, [db.tasks[taskId] EXCEPT !.completed_at = "CURRENT_TIMESTAMP"])
    ELSE db

\* a slip that would let task_complete take a task from any status
task_complete_allowedFrom_any == TASK_STATUSES

task_complete_allowedFrom ==
    {"requirements", "implementing", "review_requested", "approved", "changes_requested",
     "merging", "building", "deploying", "merge_conflict"}

task_complete(db, taskId, reason) ==
    LET r == transitionTaskStatus(db, taskId, "done", task_complete_allowedFrom,
                                  IF reason = NULL THEN "completed" ELSE reason)
    IN  IF Failed(r) THEN r ELSE Ret(SetCompletedAt(r, taskId), "")

task_merge_allowedFrom_noBranch == {"approved", "implementing"}

task_merge_allowedFrom == {"approved", "merge_conflict"}

\* a slip that would take every merge that failed for a conflict
task_merge_allConflicts(db, proj, taskId, merged) ==
    IF ~TaskExists(db, taskId) THEN Ret(db, "Task not found")
    ELSE LET task0 == db.tasks[taskId] IN
    IF ~task0.requires_branching
    THEN LET next == pickPostMergeStatus(task0, proj) IN
         IF next = "done"
         THEN task_complete(db, taskId, "completed without merge")
         ELSE transitionTaskStatus(db, taskId, next, task_merge_allowedFrom_noBranch,
                                   "advanced without merge")
    ELSE LET r == transitionTaskStatus(db, taskId, "merging", task_merge_allowedFrom, "merging") IN
         IF Failed(r) THEN r
         ELSE LET task == r.tasks[taskId] IN
         IF proj.workspace_path = NULL \/ task.git_branch = NULL
         THEN Ret(r, "workspace_path and git_branch required for merge")
         ELSE Invoked(
              IF merged # "success"
              THEN transitionTaskStatus(r, taskId, "merge_conflict", {"merging"}, "git output")
              ELSE LET next == pickPostMergeStatus(task, proj) IN
                   IF next = "done"
                   THEN LET d == transitionTaskStatus(r, taskId, "done", {"merging"},
                                                      "git output") IN
                        IF Failed(d) THEN d ELSE Ret(SetCompletedAt(d, taskId), "")
                   ELSE transitionTaskStatus(r, taskId, next, {"merging"}, "git output"),
              "mergeBranch", merged)

\* merged is the outcome of mergeBranch: "success", "conflict" or "failure"
task_merge(db, proj, taskId, merged) ==
    IF ~TaskExists(db, taskId) THEN Ret(db, "Task not found")
    ELSE LET task0 == db.tasks[taskId] IN
    IF ~task0.requires_branching
    THEN LET next == pickPostMergeStatus(task0, proj) IN
         IF next = "done"
         THEN task_complete(db, taskId, "completed without merge")
         ELSE transitionTaskStatus(db, taskId, next, task_merge_allowedFrom_noBranch,
                                   "advanced without merge")
    ELSE LET r == transitionTaskStatus(db, taskId, "merging", task_merge_allowedFrom, "merging") IN
         IF Failed(r) THEN r
         ELSE LET task == r.tasks[taskId] IN
         IF proj.workspace_path = NULL \/ task.git_branch = NULL
         THEN Ret(r, "workspace_path and git_branch required for merge")
         ELSE Invoked(
              IF merged = "conflict"
              THEN transitionTaskStatus(r, taskId, "merge_conflict", {"merging"}, "git output")
              ELSE IF merged # "success" THEN Ret(r, "Merge failed")
              ELSE LET next == pickPostMergeStatus(task, proj) IN
                   IF next = "done"
                   THEN LET d == transitionTaskStatus(r, taskId, "done", {"merging"},
                                                      "git output") IN
                        IF Failed(d) THEN d ELSE Ret(SetCompletedAt(d, taskId), "")
                   ELSE transitionTaskStatus(r, taskId, next, {"merging"}, "git output"),
              "mergeBranch", merged)

task_resolve_conflict_allowedFrom == {"merge_conflict"}

task_resolve_conflict(db, taskId) ==
    transitionTaskStatus(db, taskId, "merging", task_resolve_conflict_allowedFrom,
                         "conflict resolved")

task_build_allowedFrom == {"building", "merging", "approved"}

\* a slip that would build without asking the project for its build step
task_build_unchecked(db, proj, taskId) ==
    IF ~TaskExists(db, taskId) THEN Ret(db, "Task not found")
    ELSE transitionTaskStatus(db, taskId,
                              IF proj.has_deploy_step THEN "deploying" ELSE "done",
                              {"building", "merging", "approved"}, "build complete")

task_build(db, proj, taskId) ==
    IF ~TaskExists(db, taskId) THEN Ret(db, "Task not found")
    ELSE IF ~proj.has_build_step THEN Ret(db, "project has_build_step is false")
    ELSE transitionTaskStatus(db, taskId,
                              IF proj.has_deploy_step THEN "deploying" ELSE "done",
                              task_build_allowedFrom, "build complete")

task_deploy_allowedFrom == {"deploying", "building", "merging", "approved"}

task_deploy(db, taskId) ==
    transitionTaskStatus(db, taskId, "done", task_deploy_allowedFrom, "deploy complete")

task_cancel_allowedFrom ==
    {"requirements", "implementing", "review_requested", "approved", "changes_requested",
     "merging", "merge_conflict", "building", "deploying", "blocked", "done"}

\* the row as task_cancel loaded it, before the transition, has a worktree to remove
HasWorktree(task, proj) ==
    /\ task.requires_branching
    /\ proj.workspace_path # NULL
    /\ task.worktree_path # NULL
    /\ task.git_branch # NULL

\* a slip that would let the failure of removeWorktree reach the caller
task_cancel_uncaught(db, proj, taskId, removed) ==
    IF ~TaskExists(db, taskId) THEN Ret(db, "Task not found")
    ELSE LET r == transitionTaskStatus(db, taskId, "cancelled", task_cancel_allowedFrom,
                                       "cancelled")
         IN  IF Failed(r) \/ ~HasWorktree(db.tasks[taskId], proj) THEN r
             ELSE IF removed # "ok"
             THEN Invoked(Ret(r, "removeWorktree failed"), "removeWorktree", removed)
             ELSE Invoked(r, "removeWorktree", removed)

\* removed is the outcome of removeWorktree, "ok" or "error": the handler awaits
\* removeWorktree(...).catch(() => undefined), which returns after either
task_cancel(db, proj, taskId, removed) ==
    IF ~TaskExists(db, taskId) THEN Ret(db, "Task not found")
    ELSE LET r == transitionTaskStatus(db, taskId, "cancelled", task_cancel_allowedFrom,
                                       "cancelled")
         IN  IF Failed(r) \/ ~HasWorktree(db.tasks[taskId], proj) THEN r
             ELSE Invoked(r, "removeWorktree", removed)

task_block_allowedFrom ==
    {"requirements", "implementing", "review_requested", "approved", "changes_requested",
     "merging", "merge_conflict", "building", "deploying"}

\* UPDATE project_tasks SET status_before_blocked=?, block_reason=? WHERE id=?
\* The column is an ENUM without 'done' and 'cancelled': given one of these the
\* store either rejects the statement (strict SQL mode) or stores '' (otherwise).
SaveStatusBeforeBlocked(db, taskId, status, reason) ==
    UpdateColumns(db, taskId,
        [db.tasks[taskId] EXCEPT
            !.status_before_blocked = IF status \in STATUS_BEFORE_BLOCKED_ENUM THEN status ELSE "",
            !.block_reason = reason])

task_block(db, taskId, reason, strict) ==
    IF ~TaskExists(db, taskId) THEN Ret(db, "Task not found")
    ELSE LET task == db.tasks[taskId] IN
    IF task.status = "blocked" THEN Ret(db, "")
    ELSE IF task.status \notin STATUS_BEFORE_BLOCKED_ENUM /\ strict
    THEN Ret(db, "Data truncated for column status_before_blocked")
    ELSE transitionTaskStatus(SaveStatusBeforeBlocked(db, taskId, task.status, reason),
                              taskId, "blocked", task_block_allowedFrom,
                              IF reason = NULL THEN "blocked" ELSE reason)

\* UPDATE project_tasks SET status_before_blocked=NULL, block_reason=NULL WHERE id=?
ClearStatusBeforeBlocked(db, taskId) ==
    UpdateColumns(db, taskId,
        [db.tasks[taskId] EXCEPT !.status_before_blocked = NULL, !.block_reason = NULL])

\* a slip that would always restore the default
RestoreStatus_default(task) == "requirements"

\* task.status_before_blocked ?? "requirements"
RestoreStatus(task) ==
    IF task.status_before_blocked = NULL THEN "requirements" ELSE task.status_before_blocked

task_unblock(db, taskId) ==
    IF ~TaskExists(db, taskId) THEN Ret(db, "Task not found")
    ELSE LET task == db.tasks[taskId] IN
    IF task.status # "blocked" THEN Ret(db, "task is not blocked")
    ELSE transitionTaskStatus(ClearStatusBeforeBlocked(db, taskId), taskId,
                              RestoreStatus(task), {"blocked"}, "unblocked")

-----------------------------------------------------------------------------
(* The action methods on projects and on the rows a project owns, as functions *)
(* of the whole database: each returns the database it leaves and the error it *)
(* throws.                                                                     *)

PROJECT_STATES == {"planning", "active", "paused", "complete", "archived"}

\* a slip that would let a complete project be reopened
PROJECT_STATE_TRANSITIONS_reopens(from) ==
    CASE from = "planning" -> {"active"}
      [] from = "active"   -> {"paused", "complete"}
      [] from = "paused"   -> {"active", "archived"}
      [] from = "complete" -> {"archived", "active"}
      [] from = "archived" -> {"active"}
      [] OTHER             -> {}

PROJECT_STATE_TRANSITIONS(from) ==
    CASE from = "planning" -> {"active"}
      [] from = "active"   -> {"paused", "complete"}
      [] from = "paused"   -> {"active", "archived"}
      [] from = "complete" -> {"archived"}
      [] from = "archived" -> {"active"}
      [] OTHER             -> {}

\* the database: every table and the AUTO_INCREMENT counters
Database(p, l, c, m, t, h, d, a, n) ==
    [projects |-> p, project_links |-> l, project_commands |-> c, project_memory |-> m,
     project_tasks |-> t, task_status_history |-> h, project_task_dependencies |-> d,
     task_attempts |-> a, auto_increment |-> n]

\* what a method returns or throws: deleted is affectedRows of its DELETE
Out(s, error) == [store |-> s, error |-> error, deleted |-> 0]

\* String.prototype.trim on the texts the callers pass
trim(text) == IF text \in {"", " "} THEN "" ELSE text

\* INSERT INTO a table keyed by AUTO_INCREMENT: the row gets the next id
Insert(s, table, row) ==
    LET insertId == s.auto_increment[table] + 1 IN
    [s EXCEPT ![table] = @ @@ (insertId :> [row EXCEPT !.id = insertId]),
              !.auto_increment[table] = insertId]

\* the rows of a table without those of the given ids
Delete(rows, ids) == [id \in DOMAIN rows \ ids |-> rows[id]]

\* the ids of the rows of a table that belong to a project
OwnedBy(rows, projectId) == {id \in DOMAIN rows : rows[id].project_id = projectId}

\* UNIQUE KEY (project_id, label): another row of the project has the label
LabelTaken(rows, projectId, label, id) ==
    \E other \in OwnedBy(rows, projectId) \ {id} : rows[other].label = label

project_create(s, id, name, workspacePath, hasBuildStep, hasDeployStep) ==
    IF trim(id) = "" \/ trim(name) = "" THEN Out(s, "id and name required")
    ELSE IF trim(id) \in DOMAIN s.projects THEN Out(s, "Duplicate entry for key PRIMARY")
    ELSE Out([s EXCEPT !.projects = @ @@ (trim(id) :>
                  [id |-> trim(id), name |-> trim(name), state |-> "planning",
                   workspace_path |-> workspacePath,
                   has_build_step |-> InputOr(hasBuildStep, TRUE),
                   has_deploy_step |-> InputOr(hasDeployStep, TRUE)])], "")

project_update(s, projectId, name, state, workspacePath, hasBuildStep, hasDeployStep) ==
    IF trim(projectId) = "" THEN Out(s, "projectId required")
    ELSE IF trim(projectId) \notin DOMAIN s.projects
    THEN Out(s, "Project not found: " \o trim(projectId))
    ELSE LET row == s.projects[trim(projectId)]
             nextState == IF state = NULL THEN row.state ELSE state
         IN  IF nextState # row.state /\ nextState \notin PROJECT_STATE_TRANSITIONS(row.state)
             THEN Out(s, "Invalid project state transition: " \o row.state \o " -> "
                         \o nextState)
             ELSE Out([s EXCEPT !.projects[trim(projectId)] =
                          [row EXCEPT
                             !.name = IF name = NULL THEN @ ELSE name,
                             !.state = nextState,
                             !.workspace_path = IF workspacePath = NULL THEN @
                                                ELSE workspacePath,
                             !.has_build_step = InputOr(hasBuildStep, @),
                             !.has_deploy_step = InputOr(hasDeployStep, @)]], "")

\* a slip that would delete the row of projects and leave the rows it owns
Cascade_none(s, projectId) == [s EXCEPT !.projects = Delete(@, {projectId})]

\* DELETE FROM projects WHERE id=?, with the ON DELETE CASCADE of the foreign keys:
\* the rows of the project, and the rows of its tasks
Cascade(s, projectId) ==
    LET tasks == OwnedBy(s.project_tasks, projectId) IN
    [s EXCEPT !.projects = Delete(@, {projectId}),
              !.project_links = Delete(@, OwnedBy(@, projectId)),
              !.project_commands = Delete(@, OwnedBy(@, projectId)),
              !.project_memory = Delete(@, OwnedBy(@, projectId)),
              !.project_tasks = Delete(@, tasks),
              !.task_status_history = SelectSeq(@, LAMBDA row : row.task_id \notin tasks),
              !.project_task_dependencies =
                  {dep \in @ : dep[1] \notin tasks /\ dep[2] \notin tasks},
              !.task_attempts = Delete(@, {id \in DOMAIN @ : @[id].task_id \in tasks})]

project_delete(s, projectId) ==
    IF trim(projectId) = "" THEN Out(s, "projectId required")
    ELSE IF trim(projectId) \notin DOMAIN s.projects THEN Out(s, "")
    ELSE [Out(Cascade(s, trim(projectId)), "") EXCEPT !.deleted = 1]

link_add(s, projectId, label, url) ==
    IF trim(projectId) = "" \/ trim(label) = "" \/ trim(url) = ""
    THEN Out(s, "projectId, label, url required")
    ELSE IF trim(projectId) \notin DOMAIN s.projects
    THEN Out(s, "Project not found: " \o trim(projectId))
    ELSE IF LabelTaken(s.project_links, trim(projectId), trim(label), 0)
    THEN Out(s, "Duplicate entry for key uq_project_link")
    ELSE Out(Insert(s, "project_links",
                    [id |-> 0, project_id |-> trim(projectId), label |-> trim(label),
                     url |-> trim(url)]), "")

memory_add(s, projectId, content) ==
    IF trim(projectId) = "" \/ trim(content) = ""
    THEN Out(s, "projectId and content required")
    ELSE IF trim(projectId) \notin DOMAIN s.projects
    THEN Out(s, "Project not found: " \o trim(projectId))
    ELSE Out(Insert(s, "project_memory",
                    [id |-> 0, project_id |-> trim(projectId), category |-> "learning",
                     content |-> trim(content)]), "")

\* task_add on a database of many projects: the project must exist, the task gets
\* the next id
task_add_to(s, projectId, taskType, now) ==
    IF trim(projectId) = "" THEN Out(s, "projectId and title required")
    ELSE IF trim(projectId) \notin DOMAIN s.projects
    THEN Out(s, "Project not found: " \o trim(projectId))
    ELSE LET t == Insert(s, "project_tasks",
                         NewTaskRow(trim(projectId), 0, taskType, NULL, NULL, 0, now))
             insertId == t.auto_increment.project_tasks
         IN  Out([t EXCEPT !.task_status_history =
                     Append(@, HistoryRow(insertId, NULL, "requirements", "task created"))],
                 "")

\* the row a writer of task_attempts inserts: the task must exist (fk_attempts_task)
attempt_add(s, taskId, outcome) ==
    IF taskId \notin DOMAIN s.project_tasks
    THEN Out(s, "Cannot add or update a child row: a foreign key constraint fails")
    ELSE Out(Insert(s, "task_attempts", [id |-> 0, task_id |-> taskId, outcome |-> outcome]),
             "")

cmd_add(s, projectId, label, command) ==
    IF trim(projectId) = "" \/ trim(label) = "" \/ trim(command) = ""
    THEN Out(s, "projectId, label, command required")
    ELSE IF trim(projectId) \notin DOMAIN s.projects
    THEN Out(s, "Project not found: " \o trim(projectId))
    ELSE IF LabelTaken(s.project_commands, trim(projectId), trim(label), 0)
    THEN Out(s, "Duplicate entry for key uq_cmd")
    ELSE Out(Insert(s, "project_commands",
                    [id |-> 0, project_id |-> trim(projectId), label |-> trim(label),
                     command |-> trim(command), locked |-> FALSE, locked_by |-> NULL,
                     locked_at |-> NULL]), "")

\* a slip that would take the force flag alone as enough
ensureCmdUnlocked_noReason(command, force, reason) ==
    IF ~command.locked THEN ""
    ELSE IF ~force THEN "Command " \o ToString(command.id) \o " is locked"
    ELSE ""

\* ensureCmdUnlocked: the error it throws, "" when it returns
ensureCmdUnlocked(command, force, reason) ==
    IF ~command.locked THEN ""
    ELSE IF ~force THEN "Command " \o ToString(command.id) \o " is locked"
    ELSE IF reason = NULL \/ trim(reason) = ""
    THEN "force reason required when mutating locked command"
    ELSE ""

ensureCommand(s, commandId) ==
    IF commandId \in DOMAIN s.project_commands THEN ""
    ELSE "Command not found: " \o ToString(commandId)

cmd_remove(s, commandId, force, reason) ==
    IF ensureCommand(s, commandId) # "" THEN Out(s, ensureCommand(s, commandId))
    ELSE LET command == s.project_commands[commandId]
             locked == ensureCmdUnlocked(command, InputOr(force, FALSE), reason)
         IN  IF locked # "" THEN Out(s, locked)
             ELSE [Out([s EXCEPT !.project_commands = Delete(@, {commandId})], "")
                     EXCEPT !.deleted = 1]

cmd_update(s, commandId, force, reason, label, text) ==
    IF ensureCommand(s, commandId) # "" THEN Out(s, ensureCommand(s, commandId))
    ELSE LET command == s.project_commands[commandId]
             locked == ensureCmdUnlocked(command, InputOr(force, FALSE), reason)
             row == [command EXCEPT !.label = IF label = NULL THEN @ ELSE label,
                                    !.command = IF text = NULL THEN @ ELSE text]
         IN  IF locked # "" THEN Out(s, locked)
             ELSE IF LabelTaken(s.project_commands, row.project_id, row.label, commandId)
             THEN Out(s, "Duplicate entry for key uq_cmd")
             ELSE Out([s EXCEPT !.project_commands[commandId] = row], "")

cmd_lock(s, commandId, lockedBy) ==
    IF ensureCommand(s, commandId) # "" THEN Out(s, ensureCommand(s, commandId))
    ELSE Out([s EXCEPT !.project_commands[commandId] =
                 [@ EXCEPT !.locked = TRUE,
                           !.locked_by = IF lockedBy = NULL THEN "unknown" ELSE lockedBy,
                           !.locked_at = "CURRENT_TIMESTAMP"]], "")

cmd_unlock(s, commandId) ==
    IF ensureCommand(s, commandId) # "" THEN Out(s, ensureCommand(s, commandId))
    ELSE Out([s EXCEPT !.project_commands[commandId] =
                 [@ EXCEPT !.locked = FALSE, !.locked_by = NULL, !.locked_at = NULL]], "")

-----------------------------------------------------------------------------
(* Spec: the action methods called one at a time *)

\* what a caller can pass for an optional boolean
BoolInputs == {NULL, "true", "false"}

ReasonInputs == {"reason"}

Priorities == {0}

\* CURRENT_TIMESTAMP at an INSERT: not before the newest row's created_at
Now == IF project_tasks = <<>> THEN 1 ELSE project_tasks[Len(project_tasks)].created_at

NoCalls == <<>>

CurrentDb == Db(project_tasks, task_status_history)

\* what the caller holds after a call: the task, project or command the call was
\* about, the error it threw, what it has invoked of git.ts, the rows it deleted
Outcome(action, taskId, error) ==
    [action |-> action, taskId |-> taskId, projectId |-> NULL, commandId |-> 0,
     error |-> error, git |-> {}, deleted |-> 0]

CurrentStore ==
    Database(projects, project_links, project_commands, project_memory, project_tasks,
             task_status_history, project_task_dependencies, task_attempts, auto_increment)

\* the store and the caller after a method on projects or on their rows has run
Commit(outcome, r) ==
    /\ projects' = r.store.projects
    /\ project_links' = r.store.project_links
    /\ project_commands' = r.store.project_commands
    /\ project_memory' = r.store.project_memory
    /\ project_tasks' = r.store.project_tasks
    /\ task_status_history' = r.store.task_status_history
    /\ project_task_dependencies' = r.store.project_task_dependencies
    /\ task_attempts' = r.store.task_attempts
    /\ auto_increment' = r.store.auto_increment
    /\ result' = [outcome EXCEPT !.error = r.error, !.deleted = r.deleted]
    /\ UNCHANGED <<calls, runner>>

\* a database with no row at all
NoStore == Database(NoRows, NoRows, NoRows, NoRows, NoRows, <<>>, {}, NoRows, NoInserts)

\* the store and the caller after a handler has run to its end
Finish(action, taskId, r) ==
    /\ Len(r.history) <= MaxHistory
    /\ project_tasks' = r.tasks
    /\ task_status_history' = r.history
    /\ result' = [Outcome(action, taskId, r.error) EXCEPT !.git = r.git]
    /\ UNCHANGED <<projects, project_task_dependencies, calls, others, runner>>

Init ==
    /\ \E hasBuildStep \in BoolInputs, hasDeployStep \in BoolInputs,
          workspacePath \in {NULL, "/ws"} :
         projects = project_create(NoStore, TheProject, "name", workspacePath,
                                   hasBuildStep, hasDeployStep).store.projects
    /\ NoOthers
    /\ NoRunner
    /\ project_tasks = <<>>
    /\ task_status_history = <<>>
    /\ project_task_dependencies = {}
    /\ result = Outcome("project_create", NoTask, "")
    /\ calls = NoCalls

Call_task_add ==
    /\ calls = NoCalls
    /\ Len(project_tasks) < MaxTasks
    /\ \E taskType \in TASK_TYPES, rb \in BoolInputs, rhr \in BoolInputs, prio \in Priorities :
         Finish("task_add", Len(project_tasks) + 1,
                task_add(CurrentDb, TheProject, taskType, rb, rhr, prio, Now))

Call_task_start ==
    /\ calls = NoCalls
    /\ \E taskId \in 1..MaxTasks, git \in {"ok", "error"} :
           Finish("task_start", taskId, task_start(CurrentDb, project, taskId, git))

Call_task_request_review ==
    /\ calls = NoCalls
    /\ \E taskId \in 1..MaxTasks :
           Finish("task_request_review", taskId, task_request_review(CurrentDb, taskId))

Call_task_approve ==
    /\ calls = NoCalls
    /\ \E taskId \in 1..MaxTasks :
           Finish("task_approve", taskId, task_approve(CurrentDb, taskId, NULL))

Call_task_request_changes ==
    /\ calls = NoCalls
    /\ \E taskId \in 1..MaxTasks :
           Finish("task_request_changes", taskId, task_request_changes(CurrentDb, taskId))

Call_task_merge ==
    /\ calls = NoCalls
    /\ \E taskId \in 1..MaxTasks, merged \in {"success", "conflict", "failure"} :
           Finish("task_merge", taskId, task_merge(CurrentDb, project, taskId, merged))

Call_task_resolve_conflict ==
    /\ calls = NoCalls
    /\ \E taskId \in 1..MaxTasks :
           Finish("task_resolve_conflict", taskId, task_resolve_conflict(CurrentDb, taskId))

Call_task_build ==
    /\ calls = NoCalls
    /\ \E taskId \in 1..MaxTasks :
           Finish("task_build", taskId, task_build(CurrentDb, project, taskId))

Call_task_deploy ==
    /\ calls = NoCalls
    /\ \E taskId \in 1..MaxTasks :
           Finish("task_deploy", taskId, task_deploy(CurrentDb, taskId))

Call_task_complete ==
    /\ calls = NoCalls
    /\ \E taskId \in 1..MaxTasks :
           Finish("task_complete", taskId, task_complete(CurrentDb, taskId, NULL))

Call_task_cancel ==
    /\ calls = NoCalls
    /\ \E taskId \in 1..MaxTasks, removed \in {"ok", "error"} :
           Finish("task_cancel", taskId, task_cancel(CurrentDb, project, taskId, removed))

Call_task_block ==
    /\ calls = NoCalls
    /\ \E taskId \in 1..MaxTasks, reason \in ReasonInputs, strict \in BOOLEAN :
           Finish("task_block", taskId, task_block(CurrentDb, taskId, reason, strict))

Call_task_unblock ==
    /\ calls = NoCalls
    /\ \E taskId \in 1..MaxTasks :
           Finish("task_unblock", taskId, task_unblock(CurrentDb, taskId))

Next ==
    \/ Call_task_add
    \/ Call_task_start
    \/ Call_task_request_review
    \/ Call_task_approve
    \/ Call_task_request_changes
    \/ Call_task_merge
    \/ Call_task_resolve_conflict
    \/ Call_task_build
    \/ Call_task_deploy
    \/ Call_task_complete
    \/ Call_task_cancel
    \/ Call_task_block
    \/ Call_task_unblock

Spec == Init /\ [][Next]_vars

-----------------------------------------------------------------------------
(* The stores SpecNext and SpecRace start from: tasks added by task_add and    *)
(* brought to a status by the action methods.                                  *)

RECURSIVE Brought(_, _, _, _)
\* the database after the calls that bring task t from requirements to a status
Brought(db, proj, t, status) ==
    LET in(s) == Brought(db, proj, t, s)
        review == db.tasks[t].requires_human_review
        r == CASE status = "requirements"      -> Ret(db, "")
               [] status = "implementing"      -> task_start(in("requirements"), proj, t, "ok")
               [] status = "review_requested"  -> task_request_review(in("implementing"), t)
               [] status = "changes_requested" -> task_request_changes(in("review_requested"), t)
               [] status = "approved"          ->
                    task_approve(in(IF review THEN "review_requested" ELSE "implementing"), t, NULL)
               [] status = "merging"           -> task_merge(in("approved"), proj, t, "failure")
               [] status = "merge_conflict"    -> task_merge(in("approved"), proj, t, "conflict")
               [] status = "building"          -> task_merge(in("approved"), proj, t, "success")
               [] status = "deploying"         ->
                    IF proj.has_build_step THEN task_build(in("building"), proj, t)
                    ELSE task_merge(in("approved"), proj, t, "success")
               [] status = "done"              -> task_complete(in("implementing"), t, NULL)
               [] status = "cancelled"         -> task_cancel(in("implementing"), proj, t, "ok")
               [] status = "blocked"           -> task_block(in("implementing"), t, NULL, TRUE)
    IN  Db(r.tasks, r.history)

RECURSIVE Populated(_, _, _)
\* the database after task_add of tasks 1..n, each brought to the status of its input
Populated(n, proj, input) ==
    IF n = 0 THEN Db(<<>>, <<>>)
    ELSE LET r == task_add(Populated(n - 1, proj, input), proj.id, input[n].task_type,
                           NULL, NULL,
                           input[n].priority, input[n].created_at)
         IN  Brought(Db(r.tasks, r.history), proj, n, input[n].status)

\* the calls did bring every task to the status of its input
IsBrought(db, input) == \A i \in DOMAIN db.tasks : db.tasks[i].status = input[i].status

-----------------------------------------------------------------------------
(* SpecNext: task_next over the tables a project can hold. The tasks are put  *)
(* in every status by the action methods, the dependencies are built by        *)
(* task_dep_add and task_dep_remove.                                           *)

NextPriorities == {5, 10}

NextTimestamps == {1, 2}

\* the project of SpecNext: a workspace, a build step and a deploy step
NextProject ==
    [id |-> TheProject, name |-> "name", state |-> "active", has_build_step |-> TRUE,
     has_deploy_step |-> TRUE, workspace_path |-> "/ws"]

\* what SpecNext draws for each task
NextInputs ==
    [task_type : {"feature"}, status : TASK_STATUSES, priority : NextPriorities,
     created_at : NextTimestamps]

InitNext ==
    /\ projects = (TheProject :> NextProject)
    /\ NoOthers
    /\ NoRunner
    /\ \E input \in [1..MaxNextTasks -> NextInputs] :
         LET db == Populated(MaxNextTasks, project, input) IN
         /\ \A i \in 1..(MaxNextTasks - 1) : input[i].created_at <= input[i + 1].created_at
         /\ IsBrought(db, input)
         /\ project_tasks = db.tasks
         /\ task_status_history = db.history
    /\ project_task_dependencies = {}
    /\ result = Outcome("project_get", NoTask, "")
    /\ calls = NoCalls

Call_task_dep_add ==
    \E taskId \in 1..MaxNextTasks, dependsOnId \in 1..MaxNextTasks :
        LET r == task_dep_add(project_tasks, project_task_dependencies, taskId, dependsOnId) IN
        /\ project_task_dependencies' = r.deps
        /\ result' = Outcome("task_dep_add", taskId, r.error)
        /\ UNCHANGED <<projects, project_tasks, task_status_history, calls, others, runner>>

Call_task_dep_remove ==
    \E taskId \in 1..MaxNextTasks, dependsOnId \in 1..MaxNextTasks :
        /\ project_task_dependencies'
             = task_dep_remove(project_task_dependencies, taskId, dependsOnId)
        /\ result' = Outcome("task_dep_remove", taskId, "")
        /\ UNCHANGED <<projects, project_tasks, task_status_history, calls, others, runner>>

Call_task_next ==
    /\ result' = Outcome("task_next", task_next(project_tasks, project_task_dependencies), "")
    /\ UNCHANGED <<projects, project_tasks, task_status_history, project_task_dependencies,
                   calls, others, runner>>

NextNext ==
    \/ Call_task_dep_add
    \/ Call_task_dep_remove
    \/ Call_task_next

SpecNext == InitNext /\ [][NextNext]_vars

-----------------------------------------------------------------------------
(* SpecRace: two invocations of one action method on one task, both in flight, *)
(* each advancing by one awaited call (a statement of the store, a git call)   *)
(* at a time. calls[p] is invocation p: where it stands and what it holds in   *)
(* its local variables.                                                        *)

Procs == {1, 2}

RaceActions ==
    {"task_start", "task_request_review", "task_approve", "task_request_changes",
     "task_merge", "task_resolve_conflict", "task_build", "task_deploy", "task_complete",
     "task_cancel", "task_block", "task_unblock"}

RaceProjects ==
    [id : {TheProject}, name : {"name"}, state : {"active"}, has_build_step : BOOLEAN,
     has_deploy_step : BOOLEAN, workspace_path : {"/ws"}]
    \cup {[id |-> TheProject, name |-> "name", state |-> "active", has_build_step |-> TRUE,
           has_deploy_step |-> TRUE, workspace_path |-> NULL]}

\* what SpecRace draws for each task
RaceInputs ==
    [task_type : {"feature", "bugfix", "iteration", "hotfix"}, status : TASK_STATUSES,
     priority : {0}, created_at : {1}]

\* an invocation about to make its first awaited call
Invocation(action, taskId, began, rows) ==
    [action |-> action, taskId |-> taskId, pc |-> "ensureTask",
     status |-> NULL,            \* task.status as the handler loaded it
     restore |-> NULL,           \* task_unblock: the status to restore
     from |-> NULL,              \* transitionTaskStatus: task.status as it loaded it
     to |-> NULL, allowedFrom |-> {}, reason |-> NULL,
     then |-> "return",          \* what the handler does after the transition
     passed |-> 0,               \* conditional UPDATEs of this invocation that matched
     wrote |-> FALSE,            \* a statement of this invocation has changed the store
     error |-> "",
     git |-> {},                 \* the functions of git.ts this invocation has awaited
     cleanup |-> FALSE,          \* task_cancel: the row it loaded has a worktree to remove
     began |-> began,            \* the task's status when the race began
     rows |-> rows]              \* the rows of the history when the race began

\* the invocation calls transitionTaskStatus
Transition(inv, to, allowedFrom, reason, then) ==
    [inv EXCEPT !.pc = "transition_ensureTask", !.to = to, !.allowedFrom = allowedFrom,
                !.reason = reason, !.then = then]

Return(inv) == [inv EXCEPT !.pc = "returned"]

Throw(inv, error) == [inv EXCEPT !.pc = "returned", !.error = error]

\* the handlers whose first awaited call is transitionTaskStatus
Begin(action, taskId, began, rows) ==
    LET inv == Invocation(action, taskId, began, rows) IN
    CASE action = "task_start" ->
           Transition(inv, "implementing", task_start_allowedFrom, "task started", "worktree")
      [] action = "task_request_changes" ->
           Transition(inv, "changes_requested", task_request_changes_allowedFrom,
                      "changes requested", "return")
      [] action = "task_resolve_conflict" ->
           Transition(inv, "merging", task_resolve_conflict_allowedFrom,
                      "conflict resolved", "return")
      [] action = "task_deploy" ->
           Transition(inv, "done", task_deploy_allowedFrom, "deploy complete", "return")
      [] action = "task_complete" ->
           Transition(inv, "done", task_complete_allowedFrom, "completed", "completed_at")
      [] OTHER -> inv

\* the handler after its ensureTask has returned the row task
AfterEnsureTask(inv, task, proj) ==
    CASE inv.pc = "approve_ensureTask" ->
           Transition(inv, "approved", task_approve_allowedFrom(task), "auto-approved", "return")
      [] inv.action = "task_approve" ->
           Transition(inv, "approved", task_approve_allowedFrom(task), "approved", "return")
      [] inv.action = "task_request_review" ->
           IF ~task.requires_human_review THEN [inv EXCEPT !.pc = "approve_ensureTask"]
           ELSE Transition(inv, "review_requested", task_request_review_allowedFrom,
                           "review requested", "return")
      [] inv.action = "task_merge" ->
           IF ~task.requires_branching
           THEN (IF pickPostMergeStatus(task, proj) = "done"
                 THEN Transition(inv, "done", task_complete_allowedFrom,
                                 "completed without merge", "completed_at")
                 ELSE Transition(inv, pickPostMergeStatus(task, proj),
                                 task_merge_allowedFrom_noBranch, "advanced without merge",
                                 "return"))
           ELSE Transition(inv, "merging", task_merge_allowedFrom, "merging", "merge")
      [] inv.action = "task_build" ->
           IF ~proj.has_build_step THEN Throw(inv, "project has_build_step is false")
           ELSE Transition(inv, IF proj.has_deploy_step THEN "deploying" ELSE "done",
                           task_build_allowedFrom, "build complete", "return")
      [] inv.action = "task_cancel" ->
           Transition([inv EXCEPT !.cleanup = HasWorktree(task, proj)],
                      "cancelled", task_cancel_allowedFrom, "cancelled", "remove")
      [] inv.action = "task_block" ->
           IF task.status = "blocked" THEN Return(inv)
           ELSE [inv EXCEPT !.pc = "save_status_before_blocked", !.status = task.status]
      [] inv.action = "task_unblock" ->
           IF task.status # "blocked" THEN Throw(inv, "task is not blocked")
           ELSE [inv EXCEPT !.pc = "clear_status_before_blocked",
                            !.restore = RestoreStatus(task)]

\* the handler after transitionTaskStatus has returned the reloaded row task
AfterTransition(inv, task, proj) ==
    CASE inv.then = "worktree" ->
           IF ~task.requires_branching THEN Return(inv)
           ELSE IF proj.workspace_path = NULL
           THEN Throw(inv, "Project workspace_path required for branching tasks")
           ELSE [inv EXCEPT !.pc = "createWorktree"]
      [] inv.then = "merge" ->
           IF proj.workspace_path = NULL \/ task.git_branch = NULL
           THEN Throw(inv, "workspace_path and git_branch required for merge")
           ELSE [inv EXCEPT !.pc = "mergeBranch"]
      [] inv.then \in {"completed_at", "merged_done"} -> [inv EXCEPT !.pc = "set_completed_at"]
      [] inv.then = "remove" ->
           IF inv.cleanup THEN [inv EXCEPT !.pc = "removeWorktree"] ELSE Return(inv)
      [] OTHER -> Return(inv)

\* invocation p has made one awaited call: it is now inv and the store is db
Advance(p, inv, db) ==
    /\ calls' = [calls EXCEPT ![p] =
                   [inv EXCEPT !.wrote = @ \/ db.tasks # project_tasks
                                          \/ db.history # task_status_history]]
    /\ project_tasks' = db.tasks
    /\ task_status_history' = db.history
    /\ result' = IF inv.pc = "returned"
                 THEN [Outcome(inv.action, inv.taskId, inv.error) EXCEPT !.git = inv.git]
                 ELSE result
    /\ UNCHANGED <<projects, project_task_dependencies, others, runner>>

\* const task = await this.ensureTask(taskId), in the handler
Step_ensureTask ==
    \E p \in Procs :
        /\ calls[p].pc \in {"ensureTask", "approve_ensureTask"}
        /\ Advance(p, AfterEnsureTask(calls[p], project_tasks[calls[p].taskId], project),
                   CurrentDb)

\* task_block: UPDATE project_tasks SET status_before_blocked=?, block_reason=?
Step_save_status_before_blocked ==
    \E p \in Procs, strict \in BOOLEAN :
        LET inv == calls[p] IN
        /\ inv.pc = "save_status_before_blocked"
        /\ IF inv.status \notin STATUS_BEFORE_BLOCKED_ENUM /\ strict
           THEN Advance(p, Throw(inv, "Data truncated for column status_before_blocked"),
                        CurrentDb)
           ELSE Advance(p, Transition(inv, "blocked", task_block_allowedFrom, "blocked",
                                      "return"),
                        SaveStatusBeforeBlocked(CurrentDb, inv.taskId, inv.status, NULL))

\* task_unblock: UPDATE project_tasks SET status_before_blocked=NULL, block_reason=NULL
Step_clear_status_before_blocked ==
    \E p \in Procs :
        LET inv == calls[p] IN
        /\ inv.pc = "clear_status_before_blocked"
        /\ Advance(p, Transition(inv, inv.restore, {"blocked"}, "unblocked", "return"),
                   ClearStatusBeforeBlocked(CurrentDb, inv.taskId))

\* transitionTaskStatus: const task = await this.ensureTask(params.taskId)
Step_transition_ensureTask ==
    \E p \in Procs :
        LET inv == calls[p] IN
        /\ inv.pc = "transition_ensureTask"
        /\ Advance(p, [inv EXCEPT !.pc = "transition_update",
                                  !.from = project_tasks[inv.taskId].status],
                   CurrentDb)

\* transitionTaskStatus: the conditional UPDATE and the test of affectedRows
Step_transition_update ==
    \E p \in Procs :
        LET inv == calls[p] IN
        /\ inv.pc = "transition_update"
        /\ IF affectedRows(CurrentDb, inv.taskId, inv.allowedFrom) # 1
           THEN Advance(p, Throw(inv, "Task status transition failed"), CurrentDb)
           ELSE Advance(p, [inv EXCEPT !.pc = "transition_insert", !.passed = @ + 1],
                        UpdateStatus(CurrentDb, inv.taskId, inv.to, inv.allowedFrom))

\* transitionTaskStatus: INSERT INTO task_status_history
Step_transition_insert ==
    \E p \in Procs :
        LET inv == calls[p] IN
        /\ inv.pc = "transition_insert"
        /\ Advance(p, [inv EXCEPT !.pc = "transition_reload"],
                   InsertHistory(CurrentDb, inv.taskId, inv.from, inv.to, inv.reason))

\* transitionTaskStatus: return await this.ensureTask(params.taskId)
Step_transition_reload ==
    \E p \in Procs :
        LET inv == calls[p] IN
        /\ inv.pc = "transition_reload"
        /\ Advance(p, AfterTransition(inv, project_tasks[inv.taskId], project), CurrentDb)

\* task_start: await createWorktree(...)
Step_createWorktree ==
    \E p \in Procs, git \in {"ok", "error"} :
        LET inv == calls[p] IN
        /\ inv.pc = "createWorktree"
        /\ Advance(p, IF git = "ok"
                      THEN Invoked([inv EXCEPT !.pc = "set_git_branch"], "createWorktree", git)
                      ELSE Invoked(Throw(inv, "createWorktree failed"), "createWorktree", git),
                   CurrentDb)

\* task_start: UPDATE project_tasks SET git_branch=?, worktree_path=?
Step_set_git_branch ==
    \E p \in Procs :
        LET inv == calls[p] IN
        /\ inv.pc = "set_git_branch"
        /\ Advance(p, [inv EXCEPT !.pc = "reload"],
                   UpdateColumns(CurrentDb, inv.taskId,
                       [project_tasks[inv.taskId] EXCEPT
                           !.git_branch = "task/{id}",
                           !.worktree_path = "worktrees/task-{id}"]))

\* task_merge: const merged = await mergeBranch(...)
Step_mergeBranch ==
    \E p \in Procs, merged \in {"success", "conflict", "failure"} :
        LET inv == calls[p]
            next == pickPostMergeStatus(project_tasks[inv.taskId], project)
        IN  /\ inv.pc = "mergeBranch"
            /\ Advance(p,
                   Invoked(
                     IF merged = "conflict"
                     THEN Transition(inv, "merge_conflict", {"merging"}, "git output", "return")
                     ELSE IF merged # "success" THEN Throw(inv, "Merge failed")
                     ELSE Transition(inv, next, {"merging"}, "git output",
                                     IF next = "done" THEN "merged_done" ELSE "return"),
                     "mergeBranch", merged),
                   CurrentDb)

\* task_cancel: await removeWorktree(...).catch(() => undefined)
Step_removeWorktree ==
    \E p \in Procs, removed \in {"ok", "error"} :
        LET inv == calls[p] IN
        /\ inv.pc = "removeWorktree"
        /\ Advance(p, Invoked(Return(inv), "removeWorktree", removed), CurrentDb)

\* UPDATE project_tasks SET completed_at=CURRENT_TIMESTAMP
Step_set_completed_at ==
    \E p \in Procs :
        LET inv == calls[p] IN
        /\ inv.pc = "set_completed_at"
        /\ Advance(p, IF inv.then = "merged_done" THEN [inv EXCEPT !.pc = "reload"]
                      ELSE Return(inv),
                   SetCompletedAt(CurrentDb, inv.taskId))

\* task = await this.ensureTask(task.id), before the handler returns
Step_reload ==
    \E p \in Procs :
        /\ calls[p].pc = "reload"
        /\ Advance(p, Return(calls[p]), CurrentDb)

InitRace ==
    /\ \E row \in RaceProjects : projects = (TheProject :> row)
    /\ NoOthers
    /\ NoRunner
    /\ \E input \in [1..MaxRaceTasks -> RaceInputs] :
         LET db == Populated(MaxRaceTasks, project, input) IN
         /\ IsBrought(db, input)
         /\ project_tasks = db.tasks
         /\ task_status_history = db.history
    /\ project_task_dependencies = {}
    /\ result = Outcome("project_get", NoTask, "")
    /\ \E action \in RaceActions, taskId \in 1..MaxRaceTasks :
         calls = [p \in Procs |->
                    Begin(action, taskId, project_tasks[taskId].status,
                          Len(task_status_history))]

NextRace ==
    \/ Step_ensureTask
    \/ Step_save_status_before_blocked
    \/ Step_clear_status_before_blocked
    \/ Step_transition_ensureTask
    \/ Step_transition_update
    \/ Step_transition_insert
    \/ Step_transition_reload
    \/ Step_createWorktree
    \/ Step_set_git_branch
    \/ Step_mergeBranch
    \/ Step_removeWorktree
    \/ Step_set_completed_at
    \/ Step_reload

SpecRace == InitRace /\ [][NextRace]_vars

-----------------------------------------------------------------------------
(* SpecCmd: the stored commands of one project: cmd_add, cmd_update, cmd_remove, *)
(* cmd_lock and cmd_unlock called one at a time.                                *)

CommandLabels == {"build", "test"}

CommandTexts == {"make"}

\* what a caller can pass as the reason of a forced mutation
ForceReasons == {NULL, " ", "why"}

\* the caller after a method on a command
CmdOutcome(action, commandId) == [Outcome(action, NoTask, "") EXCEPT !.commandId = commandId]

\* the caller after a method on a project
ProjectOutcome(action, projectId) ==
    [Outcome(action, NoTask, "") EXCEPT !.projectId = projectId]

\* the database after project_create of one project with the defaults
OneProject == project_create(NoStore, TheProject, "name", "/ws", NULL, NULL).store

\* the variables hold the database s
Holds(s) ==
    /\ projects = s.projects
    /\ project_links = s.project_links
    /\ project_commands = s.project_commands
    /\ project_memory = s.project_memory
    /\ project_tasks = s.project_tasks
    /\ task_status_history = s.task_status_history
    /\ project_task_dependencies = s.project_task_dependencies
    /\ task_attempts = s.task_attempts
    /\ auto_increment = s.auto_increment

InitCmd ==
    /\ Holds(OneProject)
    /\ NoRunner
    /\ result = ProjectOutcome("project_create", TheProject)
    /\ calls = NoCalls

Call_cmd_add ==
    /\ auto_increment.project_commands < MaxCommands
    /\ \E label \in CommandLabels, text \in CommandTexts :
         LET r == cmd_add(CurrentStore, TheProject, label, text) IN
         Commit(CmdOutcome("cmd_add", IF r.error = ""
                                      THEN r.store.auto_increment.project_commands ELSE 0),
                r)

Call_cmd_update ==
    \E commandId \in 1..MaxCommands, force \in BoolInputs, reason \in ForceReasons,
       label \in CommandLabels \cup {NULL}, text \in {NULL, "make all"} :
        Commit(CmdOutcome("cmd_update", commandId),
               cmd_update(CurrentStore, commandId, force, reason, label, text))

Call_cmd_remove ==
    \E commandId \in 1..MaxCommands, force \in BoolInputs, reason \in ForceReasons :
        Commit(CmdOutcome("cmd_remove", commandId),
               cmd_remove(CurrentStore, commandId, force, reason))

Call_cmd_lock ==
    \E commandId \in 1..MaxCommands, lockedBy \in {NULL, "alice"} :
        Commit(CmdOutcome("cmd_lock", commandId), cmd_lock(CurrentStore, commandId, lockedBy))

Call_cmd_unlock ==
    \E commandId \in 1..MaxCommands :
        Commit(CmdOutcome("cmd_unlock", commandId), cmd_unlock(CurrentStore, commandId))

NextCmd ==
    \/ Call_cmd_add
    \/ Call_cmd_update
    \/ Call_cmd_remove
    \/ Call_cmd_lock
    \/ Call_cmd_unlock

SpecCmd == InitCmd /\ [][NextCmd]_vars

-----------------------------------------------------------------------------
(* SpecProject: the life of one project: project_create, project_update and   *)
(* project_delete called one at a time.                                        *)

\* what a caller can pass as the state of project_update: nothing, the five
\* states, and a text that is no state
StateInputs == PROJECT_STATES \cup {NULL, "deleted"}

\* what a caller passes as hasBuildStep and hasDeployStep of project_update
BuildStepInputs == {NULL, "false"}

DeployStepInputs == {NULL, "true"}

InitProject ==
    /\ Holds(NoStore)
    /\ NoRunner
    /\ result = Outcome("init", NoTask, "")
    /\ calls = NoCalls

Call_project_create ==
    \E workspacePath \in {NULL, "/ws"}, hasBuildStep \in BoolInputs,
       hasDeployStep \in BoolInputs :
        Commit(ProjectOutcome("project_create", TheProject),
               project_create(CurrentStore, TheProject, "name", workspacePath,
                              hasBuildStep, hasDeployStep))

Call_project_update ==
    \E name \in {NULL, "renamed"}, state \in StateInputs, workspacePath \in {NULL, "/moved"},
       hasBuildStep \in BuildStepInputs, hasDeployStep \in DeployStepInputs :
        Commit(ProjectOutcome("project_update", TheProject),
               project_update(CurrentStore, TheProject, name, state, workspacePath,
                              hasBuildStep, hasDeployStep))

Call_project_delete ==
    Commit(ProjectOutcome("project_delete", TheProject),
           project_delete(CurrentStore, TheProject))

NextProjectLife ==
    \/ Call_project_create
    \/ Call_project_update
    \/ Call_project_delete

SpecProject == InitProject /\ [][NextProjectLife]_vars

-----------------------------------------------------------------------------
(* SpecDelete: two projects and the rows they own: projects are created and    *)
(* deleted; links, commands, memory, tasks, dependencies and attempts are      *)
(* added, one call at a time.                                                  *)

ProjectIds == {"P1", "P2"}

Own_project_create ==
    \E projectId \in ProjectIds :
        Commit(ProjectOutcome("project_create", projectId),
               project_create(CurrentStore, projectId, "name", "/ws", NULL, NULL))

Own_project_delete ==
    \E projectId \in ProjectIds :
        Commit(ProjectOutcome("project_delete", projectId),
               project_delete(CurrentStore, projectId))

Own_link_add ==
    /\ auto_increment.project_links < MaxOwned
    /\ \E projectId \in ProjectIds :
         Commit(ProjectOutcome("link_add", projectId),
                link_add(CurrentStore, projectId, "docs", "https://docs"))

Own_cmd_add ==
    /\ auto_increment.project_commands < MaxOwned
    /\ \E projectId \in ProjectIds :
         Commit(ProjectOutcome("cmd_add", projectId),
                cmd_add(CurrentStore, projectId, "build", "make"))

Own_memory_add ==
    /\ auto_increment.project_memory < MaxOwned
    /\ \E projectId \in ProjectIds :
         Commit(ProjectOutcome("memory_add", projectId),
                memory_add(CurrentStore, projectId, "note"))

Own_task_add ==
    /\ auto_increment.project_tasks < MaxOwnedTasks
    /\ \E projectId \in ProjectIds :
         Commit(ProjectOutcome("task_add", projectId),
                task_add_to(CurrentStore, projectId, "feature", 1))

Own_task_dep_add ==
    \E taskId \in 1..MaxOwnedTasks, dependsOnId \in 1..MaxOwnedTasks :
        LET r == task_dep_add(project_tasks, project_task_dependencies, taskId, dependsOnId)
        IN  Commit(Outcome("task_dep_add", taskId, ""),
                   Out([CurrentStore EXCEPT !.project_task_dependencies = r.deps], r.error))

Own_attempt_add ==
    /\ auto_increment.task_attempts < MaxOwned
    /\ \E taskId \in 1..MaxOwnedTasks :
         Commit(Outcome("attempt_add", taskId, ""),
                attempt_add(CurrentStore, taskId, "failed"))

NextDelete ==
    \/ Own_project_create
    \/ Own_project_delete
    \/ Own_link_add
    \/ Own_cmd_add
    \/ Own_memory_add
    \/ Own_task_add
    \/ Own_task_dep_add
    \/ Own_attempt_add

SpecDelete == InitProject /\ [][NextDelete]_vars

-----------------------------------------------------------------------------
(* The task runner: recovery of the state file *)

\* the statuses of a TaskRecord
RUNNER_STATUSES == {"pending", "running", "stopped", "failed", "killed", "timeout", "lost"}

\* a slip that would take only the statuses a stop or an exit gives for terminal
isTerminal_endedOnly(status) == status \in {"stopped", "failed", "killed"}

\* a slip that would forget that lost is a terminal status
isTerminal_withoutLost(status) == status \in {"stopped", "failed", "killed", "timeout"}

isTerminal(status) == status \in {"stopped", "failed", "killed", "timeout", "lost"}

\* process.kill(pid, 0) does not throw
isRunningPid(pid, live) == pid \in live

\* an entry of tasks that is no object (null, a number, a text)
NotAnObject == [object |-> FALSE]

IsObject(task) == task # NotAnObject

\* path.join(path.dirname(statePath), "logs", `${task.id}.log`)
LogPath(id) == "logs/" \o id \o ".log"

\* path.join(path.dirname(statePath), "pids", `${task.id}.pid`)
PidPath(id) == "pids/" \o id \o ".pid"

\* a TaskRecord: the fields recovery and the service read or write (stdinAttached
\* missing reads as false)
TaskRecord(id, status, pid, tags, endedAt, logPath, pidPath, stdinAttached) ==
    [id |-> id, status |-> status, pid |-> pid, tags |-> tags, endedAt |-> endedAt,
     updatedAt |-> 1, logPath |-> logPath, pidPath |-> pidPath,
     stdinAttached |-> stdinAttached]

\* { version: 1, updatedAt: now(), tasks: {} }
EmptyState(now) == [version |-> 1, updatedAt |-> now, tasks |-> <<>>]

\* state.json as JSON.stringify writes a TaskRunnerStateFile
Written(st) ==
    [text |-> "json", version |-> st.version, updatedAt |-> st.updatedAt,
     tasksIsObject |-> TRUE, tasksIsNull |-> FALSE, tasks |-> st.tasks]

\* the loop body: the record is missing one of its derived paths
LacksPath(task) == task.logPath = NULL \/ task.pidPath = NULL

\* a slip that would ask for the pid of a record of unknown status too
IsLost_pidOnly(task, live) ==
    /\ ~isTerminal(task.status)
    /\ task.pid = NoPid \/ ~isRunningPid(task.pid, live)

\* the loop body: the record is to be marked lost
IsLost(task, live) ==
    IF task.status \in {"running", "pending"}
    THEN task.pid = NoPid \/ ~isRunningPid(task.pid, live)
    ELSE ~isTerminal(task.status)

\* the loop body on one record
RecoveredTask(task, live, now) ==
    LET derived == [task EXCEPT !.logPath = IF @ = NULL THEN LogPath(task.id) ELSE @,
                                !.pidPath = IF @ = NULL THEN PidPath(task.id) ELSE @,
                                !.stdinAttached = FALSE]
    IN  IF IsLost(task, live)
        THEN [derived EXCEPT !.status = "lost",
                             !.endedAt = IF @ = NoTime THEN now ELSE @,
                             !.updatedAt = now]
        ELSE derived

\* the flag changed after the loop
recoverTaskRunnerState_changed(tasks, live) ==
    \E id \in DOMAIN tasks :
        IsObject(tasks[id]) /\ (LacksPath(tasks[id]) \/ IsLost(tasks[id], live))

\* what Object.values(null) throws
TYPE_ERROR == "TypeError: Cannot convert undefined or null to object"

\* what recoverTaskRunnerState resolves to
Resolves(state, changed) == [state |-> state, changed |-> changed, error |-> ""]

\* recoverTaskRunnerState rejects: the caller gets no state
Rejects(error) == [state |-> NotLoaded, changed |-> FALSE, error |-> error]

\* recoverTaskRunnerState on the file raw, with the pids live and Date.now() = now.
\* tasksIsObject is typeof parsed.tasks === "object", which holds of null too:
\* the loop then calls Object.values(null).
recoverTaskRunnerState(raw, live, now) ==
    IF raw.text \in {"none", "empty"} THEN Resolves(EmptyState(now), FALSE)
    ELSE IF raw.text # "json" THEN Resolves(EmptyState(now), TRUE)
    ELSE IF raw.version # 1 \/ ~raw.tasksIsObject THEN Resolves(EmptyState(now), TRUE)
    ELSE IF raw.tasksIsNull THEN Rejects(TYPE_ERROR)
    ELSE Resolves([version |-> raw.version, updatedAt |-> now,
                   tasks |-> [id \in DOMAIN raw.tasks |->
                                IF IsObject(raw.tasks[id])
                                THEN RecoveredTask(raw.tasks[id], live, now)
                                ELSE raw.tasks[id]]],
                  recoverTaskRunnerState_changed(raw.tasks, live))

-----------------------------------------------------------------------------
(* SpecRecover: recoverTaskRunnerState applied to a state file, and again to  *)
(* the state it has produced, while processes end                            *)

\* the variables of the project service, which the task runner leaves alone
projectService ==
    <<projects, project_links, project_commands, project_memory, project_tasks,
      task_status_history, project_task_dependencies, task_attempts, auto_increment,
      result, calls>>

NoProjectService ==
    /\ Holds(NoStore)
    /\ result = Outcome("init", NoTask, "")
    /\ calls = NoCalls

\* the pids a record of the files can hold
Pids == {11, 12}

\* the records "x" of the state files of SpecRecover: every status, a status that
\* is none, with and without pid, endedAt, derived paths and stdin
RecordsX ==
    {TaskRecord("x", status, pid, {}, endedAt, paths[1], paths[2], stdinAttached) :
        status \in RUNNER_STATUSES \cup {"paused"}, pid \in {NoPid, 11},
        endedAt \in {NoTime, 1},
        paths \in {<<LogPath("x"), PidPath("x")>>, <<NULL, PidPath("x")>>, <<NULL, NULL>>},
        stdinAttached \in BOOLEAN}

\* the entries "y" of the state files of SpecRecover
EntriesY ==
    {TaskRecord("y", "running", 12, {}, NoTime, LogPath("y"), PidPath("y"), TRUE),
     NotAnObject}

\* a state file that parses, of version 1
Json(tasks) ==
    [text |-> "json", version |-> 1, updatedAt |-> 1, tasksIsObject |-> TRUE,
     tasksIsNull |-> FALSE, tasks |-> tasks]

\* the state files of SpecRecover
RecoverFiles ==
    {NoFile,
     [NoFile EXCEPT !.text = "not json"],
     [Json(<<>>) EXCEPT !.version = 2],
     [NoFile EXCEPT !.text = "empty"],
     [Json(<<>>) EXCEPT !.tasksIsObject = FALSE],
     [Json(<<>>) EXCEPT !.tasksIsNull = TRUE],
     Json(<<>>)}
    \cup {Json("x" :> x) : x \in RecordsX}
    \cup {Json(("x" :> x) @@ ("y" :> y)) : x \in RecordsX, y \in EntriesY}

\* what a pass of recoverTaskRunnerState has returned, and the pids that were
\* alive during it
Recovered(r, live) ==
    [op |-> "recover", changed |-> r.changed, alive |-> live, error |-> r.error]

InitRecover ==
    /\ NoProjectService
    /\ stateFile \in RecoverFiles
    /\ alive \in SUBSET Pids
    /\ taskRunnerState = NotLoaded
    /\ children = {}
    /\ starting = NotStarting
    /\ returned = NoReturn
    /\ clock = 1
    /\ spawned = 0

\* one pass: on the state file, then on the state the pass before has produced
Call_recoverTaskRunnerState ==
    /\ clock <= MaxPasses
    /\ LET raw == IF taskRunnerState = NotLoaded THEN stateFile ELSE Written(taskRunnerState)
           r == recoverTaskRunnerState(raw, alive, clock + 1)
       IN  /\ taskRunnerState' = r.state
           /\ returned' = Recovered(r, alive)
    /\ clock' = clock + 1
    /\ UNCHANGED <<stateFile, alive, children, starting, spawned, projectService>>

\* a process ends
Exit_process ==
    /\ \E pid \in alive : alive' = alive \ {pid}
    /\ UNCHANGED <<stateFile, taskRunnerState, children, starting, returned, clock,
                   spawned, projectService>>

NextRecover ==
    \/ Call_recoverTaskRunnerState
    \/ Exit_process

SpecRecover == InitRecover /\ [][NextRecover]_vars

-----------------------------------------------------------------------------
(* The task runner: the service. service.ts is not among the sources: init,   *)
(* start and stop are modelled from the specification of the supervisor, the  *)
(* comments of TaskStartRequest and the tests of the service.                 *)

ALREADY_EXISTS == "Task already exists"

STILL_RUNNING == "still running"

\* the record is of a task that has not ended
IsActive(task) == task.status \in {"running", "pending"}

\* the record carries one of the tags of the request
SharesTag(task, req) == task.tags \cap req.tags # {}

\* a slip that would let start run over a record of its id that is running
start_error_noDuplicateCheck(req, tasks, autoReplace) ==
    IF req.id \in DOMAIN tasks /\ IsActive(tasks[req.id]) /\ req.replace /\ ~req.force
    THEN STILL_RUNNING ELSE ""

\* a slip that would take replace for force
start_error_replaceForces(req, tasks, autoReplace) ==
    IF req.id \notin DOMAIN tasks THEN ""
    ELSE IF isTerminal(tasks[req.id].status)
    THEN (IF req.replace \/ req.force \/ autoReplace THEN "" ELSE ALREADY_EXISTS)
    ELSE IF req.force \/ req.replace THEN ""
    ELSE ALREADY_EXISTS

\* start: the error a request fails with before anything is stopped or spawned
\* ("" = none). A record of the id that is terminal is replaced under replace
\* (which force implies); without replace the specification has the call fail and
\* the registry of patches has it replace the record: autoReplace is which of the
\* two the service does.
start_error(req, tasks, autoReplace) ==
    IF req.id \notin DOMAIN tasks THEN ""
    ELSE IF isTerminal(tasks[req.id].status)
    THEN (IF req.replace \/ req.force \/ autoReplace THEN "" ELSE ALREADY_EXISTS)
    ELSE IF req.force THEN ""
    ELSE IF req.replace THEN STILL_RUNNING
    ELSE ALREADY_EXISTS

\* a slip that would spawn without stopping anything
start_stops_none(req, tasks) == {}

\* a slip that would leave forceByTags out
start_stops_idOnly(req, tasks) ==
    IF req.force /\ req.id \in DOMAIN tasks /\ IsActive(tasks[req.id]) THEN {req.id} ELSE {}

\* start: the ids of the tasks the call stops before it spawns
start_stops(req, tasks) ==
    (IF req.force /\ req.id \in DOMAIN tasks /\ IsActive(tasks[req.id]) THEN {req.id} ELSE {})
    \cup (IF req.forceByTags /\ req.tags # {}
          THEN {id \in DOMAIN tasks : IsActive(tasks[id]) /\ SharesTag(tasks[id], req)}
          ELSE {})

\* how a task that is stopped or exits ends: stopped on a clean exit, killed by
\* a signal, failed on an exit code that is not 0
Ends == {"stopped", "killed", "failed"}

\* the record of a task that has ended
Ended(task, status, now) ==
    [task EXCEPT !.status = status, !.endedAt = now, !.updatedAt = now,
                 !.stdinAttached = FALSE]

\* the record start creates for the child it has spawned
Spawned(req, pid, now) ==
    [TaskRecord(req.id, "running", pid, req.tags, NoTime, LogPath(req.id), PidPath(req.id),
                TRUE) EXCEPT !.updatedAt = now]

\* the child table without the handles of a task
Untracked(handles, id) == {c \in handles : c.id # id}

\* the map of tasks with one record set (added when the id has none)
WithTask(tasks, id, task) == [i \in DOMAIN tasks \cup {id} |-> IF i = id THEN task ELSE tasks[i]]

-----------------------------------------------------------------------------
(* SpecRunner: init, start, stop and the exits of the children *)

RunnerIds == {"x", "y", "z"}

\* the tags of a request: none, and one
RunnerTags == {{}, {"dev"}}

\* the pids the system gives to the children
PidPool == {11, 12, 13}

\* the state files the service starts on: none, and one record left by an
\* engine that has crashed or ended
RunnerFiles ==
    {NoFile}
    \cup {Json("x" :> TaskRecord("x", status, 11, {"dev"}, NoTime, LogPath("x"), PidPath("x"),
                                 FALSE)) : status \in {"running", "timeout"}}

TaskStartRequest(id, tags, replace, force, forceByTags) ==
    [id |-> id, tags |-> tags, replace |-> replace, force |-> force,
     forceByTags |-> forceByTags]

Requests ==
    {TaskStartRequest(id, tags, replace, force, forceByTags) :
        id \in RunnerIds, tags \in RunnerTags, replace \in BOOLEAN, force \in BOOLEAN,
        forceByTags \in BOOLEAN}

\* what a call of the service has returned or thrown
Returns(op, error) == [op |-> op, error |-> error]

\* the status of the record start removes before it spawns ("" = the id had none)
Replaced(req, tasks) == IF req.id \in DOMAIN tasks THEN tasks[req.id].status ELSE ""

\* what start returns when it has spawned the child, with what it has replaced
Started(replaced) == [op |-> "start", error |-> "", replaced |-> replaced]

\* the ids of the tasks that have not ended
ActiveIds(tasks) == {id \in DOMAIN tasks : IsActive(tasks[id])}

\* the pids the system can give to the child of a request: those of no live
\* process and of no record of another task
FreePids(req) ==
    PidPool \ (alive \cup {taskRunnerState.tasks[id].pid :
                               id \in DOMAIN taskRunnerState.tasks \ {req.id}})

\* the pid of the next child: the pids are alike to the service, the lowest free
\* one stands for any
NextPid(req) == CHOOSE pid \in FreePids(req) : \A other \in FreePids(req) : pid <= other

\* setState: the state in memory and state.json after a mutation
Persist(tasks) ==
    /\ taskRunnerState' = [taskRunnerState EXCEPT !.tasks = tasks, !.updatedAt = clock]
    /\ stateFile' = Written([taskRunnerState EXCEPT !.tasks = tasks, !.updatedAt = clock])

Loaded == taskRunnerState # NotLoaded

InitRunner ==
    /\ NoProjectService
    /\ stateFile \in RunnerFiles
    /\ alive \in SUBSET {11}
    /\ stateFile = NoFile => alive = {}
    /\ taskRunnerState = NotLoaded
    /\ children = {}
    /\ starting = NotStarting
    /\ returned = NoReturn
    /\ clock = 1
    /\ spawned = 0

\* init(): recovery, and the state written back when recovery has changed it
Call_init ==
    /\ ~Loaded
    /\ LET r == recoverTaskRunnerState(stateFile, alive, clock) IN
       /\ taskRunnerState' = r.state
       /\ stateFile' = IF r.changed THEN Written(r.state) ELSE stateFile
       /\ returned' = Recovered(r, alive)
    /\ UNCHANGED <<alive, children, starting, clock, spawned, projectService>>

\* stop(id) of a task: SIGTERM, the wait, SIGKILL; the task ends as the child
\* takes the signals
Stops(id, status) ==
    LET task == taskRunnerState.tasks[id] IN
    IF IsActive(task)
    THEN /\ alive' = alive \ {task.pid}
         /\ children' = Untracked(children, id)
         /\ Persist(WithTask(taskRunnerState.tasks, id, Ended(task, status, clock)))
    ELSE UNCHANGED <<alive, children, taskRunnerState, stateFile>>

\* start(req): one of the tasks it has to stop is stopped
Step_start_stop ==
    /\ starting.pc = "stopping"
    /\ \E id \in starting.toStop, status \in Ends :
         /\ Stops(id, status)
         /\ starting' = [starting EXCEPT !.toStop = @ \ {id}]
    /\ UNCHANGED <<returned, clock, spawned, projectService>>

\* start(req): the record of the id is removed, the child spawned and its record
\* returned
Spawns(req) ==
    /\ FreePids(req) # {}
    /\ spawned' = spawned + 1
    /\ alive' = alive \cup {NextPid(req)}
    /\ children' = children \cup {[id |-> req.id, pid |-> NextPid(req)]}
    /\ Persist(WithTask(taskRunnerState.tasks, req.id, Spawned(req, NextPid(req), clock)))
    /\ returned' = Started(Replaced(req, taskRunnerState.tasks))
    /\ starting' = NotStarting

\* start(req): the request is refused, or accepted; with nothing to stop the
\* child is spawned at once, else the call goes on to stop what it has to
start(req, autoReplace) ==
    /\ Loaded
    /\ starting = NotStarting
    /\ LET error == start_error(req, taskRunnerState.tasks, autoReplace)
           toStop == start_stops(req, taskRunnerState.tasks)
       IN  IF error # ""
           THEN /\ returned' = Returns("start", error)
                /\ UNCHANGED <<stateFile, alive, taskRunnerState, children, starting,
                               spawned>>
           ELSE /\ spawned < MaxSpawns
                /\ IF toStop = {}
                   THEN Spawns(req)
                   ELSE /\ starting' = [pc |-> "stopping", req |-> req, toStop |-> toStop,
                                        active |-> ActiveIds(taskRunnerState.tasks)]
                        /\ UNCHANGED <<stateFile, alive, taskRunnerState, children,
                                       returned, spawned>>
    /\ UNCHANGED <<clock, projectService>>

Call_start == \E req \in Requests, autoReplace \in BOOLEAN : start(req, autoReplace)

\* start(req): every task it had to stop is stopped, the child is spawned
Step_start_spawn ==
    /\ starting.pc = "stopping"
    /\ starting.toStop = {}
    /\ Spawns(starting.req)
    /\ UNCHANGED <<clock, projectService>>

\* stop(id, {timeoutMs}) called on a task that is running
Call_stop ==
    /\ Loaded
    /\ starting = NotStarting
    /\ \E id \in DOMAIN taskRunnerState.tasks, status \in Ends :
         /\ IsActive(taskRunnerState.tasks[id])
         /\ Stops(id, status)
         /\ returned' = Returns("stop", "")
    /\ UNCHANGED <<starting, clock, spawned, projectService>>

\* the exit callback of a child: the child has ended on its own
Exit_child ==
    /\ \E c \in children, status \in Ends :
         /\ c.pid \in alive
         /\ alive' = alive \ {c.pid}
         /\ children' = children \ {c}
         /\ Persist(WithTask(taskRunnerState.tasks, c.id,
                             Ended(taskRunnerState.tasks[c.id], status, clock)))
    /\ UNCHANGED <<starting, returned, clock, spawned, projectService>>

\* a process the service has no handle of (the child of an engine that is gone)
\* ends: no callback runs
Exit_orphan ==
    /\ \E pid \in alive :
         /\ \A c \in children : c.pid # pid
         /\ alive' = alive \ {pid}
    /\ UNCHANGED <<stateFile, taskRunnerState, children, starting, returned, clock,
                   spawned, projectService>>

NextRunner ==
    \/ Call_init
    \/ Call_start
    \/ Step_start_stop
    \/ Step_start_spawn
    \/ Call_stop
    \/ Exit_child
    \/ Exit_orphan

SpecRunner == InitRunner /\ [][NextRunner]_vars

-----------------------------------------------------------------------------
(* SpecCmdRace: cmd_update or cmd_remove of one caller and cmd_lock of another *)
(* on the same stored command, both in flight, each advancing by one awaited   *)
(* call at a time.                                                             *)

\* the store after cmd_add of two commands of the project
TwoCommands ==
    cmd_add(cmd_add(OneProject, TheProject, "build", "make").store,
            TheProject, "test", "make").store

\* the command the two callers name
RacedCommand == 1

\* a CommandRow not loaded yet
NoCommand ==
    [id |-> 0, project_id |-> NULL, label |-> NULL, command |-> NULL, locked |-> FALSE,
     locked_by |-> NULL, locked_at |-> NULL]

\* an invocation of a method on a command: its input, and where it is
CmdInvocation(action, commandId, force, reason, label, text, lockedBy) ==
    [action |-> action, commandId |-> commandId, pc |-> "ensureCommand",
     force |-> force, reason |-> reason, label |-> label, text |-> text,
     lockedBy |-> lockedBy,
     command |-> NoCommand,      \* the row ensureCommand returned to the handler
     error |-> "", deleted |-> 0]

\* cmd_update: UPDATE project_commands SET label=?, command=?, ... WHERE id=?, with
\* the values of the row the handler loaded where the input has none
UpdateCommand(s, commandId, command, label, text) ==
    IF commandId \notin DOMAIN s.project_commands THEN Out(s, "")
    ELSE LET row == [s.project_commands[commandId] EXCEPT
                        !.label = IF label = NULL THEN command.label ELSE label,
                        !.command = IF text = NULL THEN command.command ELSE text]
         IN  IF LabelTaken(s.project_commands, row.project_id, row.label, commandId)
             THEN Out(s, "Duplicate entry for key uq_cmd")
             ELSE Out([s EXCEPT !.project_commands[commandId] = row], "")

\* cmd_remove: DELETE FROM project_commands WHERE id=?
DeleteCommand(s, commandId) ==
    [Out([s EXCEPT !.project_commands = Delete(@, {commandId})], "")
       EXCEPT !.deleted = IF commandId \in DOMAIN s.project_commands THEN 1 ELSE 0]

\* cmd_lock: UPDATE project_commands SET locked=1, locked_by=?, locked_at=... WHERE id=?
LockCommand(s, commandId, lockedBy) ==
    IF commandId \notin DOMAIN s.project_commands THEN Out(s, "")
    ELSE cmd_lock(s, commandId, lockedBy)

\* invocation p has made one awaited call: it is now inv and the store is r.store
AdvanceCmd(p, inv, r) ==
    /\ calls' = [calls EXCEPT ![p] = inv]
    /\ project_commands' = r.store.project_commands
    /\ result' = IF inv.pc = "returned"
                 THEN [CmdOutcome(inv.action, inv.commandId) EXCEPT
                          !.error = inv.error, !.deleted = inv.deleted]
                 ELSE result
    /\ UNCHANGED <<projects, project_links, project_memory, project_tasks,
                   task_status_history, project_task_dependencies, task_attempts,
                   auto_increment, runner>>

\* const command = await this.ensureCommand(commandId), and in cmd_update and
\* cmd_remove this.ensureCmdUnlocked(command, force, reason) on the row it returned
Step_ensureCommand ==
    \E p \in Procs :
        LET inv == calls[p]
            found == ensureCommand(CurrentStore, inv.commandId)
            command == project_commands[inv.commandId]
            locked == ensureCmdUnlocked(command, InputOr(inv.force, FALSE), inv.reason)
        IN  /\ inv.pc = "ensureCommand"
            /\ AdvanceCmd(p,
                   IF found # "" THEN Throw(inv, found)
                   ELSE IF inv.action = "cmd_lock" THEN [inv EXCEPT !.pc = "execute"]
                   ELSE IF locked # "" THEN Throw(inv, locked)
                   ELSE [inv EXCEPT !.pc = "execute", !.command = command],
                   Out(CurrentStore, ""))

\* await execute(...): the UPDATE or the DELETE of the handler
Step_execute ==
    \E p \in Procs :
        LET inv == calls[p]
            r == CASE inv.action = "cmd_remove" -> DeleteCommand(CurrentStore, inv.commandId)
                   [] inv.action = "cmd_update" ->
                        UpdateCommand(CurrentStore, inv.commandId, inv.command, inv.label,
                                      inv.text)
                   [] OTHER -> LockCommand(CurrentStore, inv.commandId, inv.lockedBy)
        IN  /\ inv.pc = "execute"
            /\ AdvanceCmd(p,
                   IF r.error # "" THEN Throw(inv, r.error)
                   ELSE IF inv.action = "cmd_remove"
                   THEN Return([inv EXCEPT !.deleted = r.deleted])
                   ELSE [inv EXCEPT !.pc = "reloadCommand"],
                   r)

\* return await this.ensureCommand(commandId), of cmd_update and cmd_lock
Step_reloadCommand ==
    \E p \in Procs :
        LET inv == calls[p]
            found == ensureCommand(CurrentStore, inv.commandId)
        IN  /\ inv.pc = "reloadCommand"
            /\ AdvanceCmd(p, IF found # "" THEN Throw(inv, found) ELSE Return(inv),
                          Out(CurrentStore, ""))

InitCmdRace ==
    /\ \E lockedBefore \in BOOLEAN :
         Holds(IF lockedBefore THEN cmd_lock(TwoCommands, RacedCommand, "bob").store
               ELSE TwoCommands)
    /\ NoRunner
    /\ result = CmdOutcome("cmd_add", 2)
    /\ \E action \in {"cmd_update", "cmd_remove"}, force \in BoolInputs,
          reason \in ForceReasons, label \in CommandLabels \cup {NULL},
          text \in {NULL, "make all"}, lockedBy \in {NULL, "alice"} :
         calls = [p \in Procs |->
                    IF p = 1
                    THEN CmdInvocation(action, RacedCommand, force, reason,
                                       IF action = "cmd_update" THEN label ELSE NULL,
                                       IF action = "cmd_update" THEN text ELSE NULL, NULL)
                    ELSE CmdInvocation("cmd_lock", RacedCommand, NULL, NULL, NULL, NULL,
                                       lockedBy)]

NextCmdRace ==
    \/ Step_ensureCommand
    \/ Step_execute
    \/ Step_reloadCommand

SpecCmdRace == InitCmdRace /\ [][NextCmdRace]_vars

-----------------------------------------------------------------------------
(* SpecProjectRace: two invocations of project_update on one project, both in  *)
(* flight, each advancing by one awaited call at a time.                       *)

\* the columns of projects that project_update sets, and the input of each
PROJECT_COLUMNS ==
    [name |-> "name", state |-> "state", workspace_path |-> "workspacePath",
     has_build_step |-> "hasBuildStep", has_deploy_step |-> "hasDeployStep"]

\* what the two callers pass to project_update
ProjectRaceInputs ==
    [name : {NULL, "renamed"}, state : StateInputs, workspacePath : {NULL},
     hasBuildStep : BuildStepInputs, hasDeployStep : {NULL}]

\* a ProjectRow not loaded yet
NoProject ==
    [id |-> NULL, name |-> NULL, state |-> NULL, workspace_path |-> NULL,
     has_build_step |-> FALSE, has_deploy_step |-> FALSE]

\* an invocation of project_update: its input, and where it is
ProjectInvocation(projectId, input) ==
    [action |-> "project_update", projectId |-> projectId, pc |-> "ensureProject",
     input |-> input,
     project |-> NoProject,      \* the row ensureProject returned to the handler
     nextState |-> NULL, error |-> ""]

\* UPDATE projects SET name=?, description=?, state=?, ... WHERE id=?, with the
\* values of the row the handler loaded where the input has none
UpdateProject(rows, inv) ==
    IF inv.projectId \notin DOMAIN rows THEN rows
    ELSE [rows EXCEPT ![inv.projectId] =
            [@ EXCEPT
               !.name = IF inv.input.name = NULL THEN inv.project.name ELSE inv.input.name,
               !.state = inv.nextState,
               !.workspace_path = IF inv.input.workspacePath = NULL
                                  THEN inv.project.workspace_path
                                  ELSE inv.input.workspacePath,
               !.has_build_step = InputOr(inv.input.hasBuildStep, inv.project.has_build_step),
               !.has_deploy_step = InputOr(inv.input.hasDeployStep,
                                           inv.project.has_deploy_step)]]

\* invocation p has made one awaited call: it is now inv and the table is rows
AdvanceProject(p, inv, rows) ==
    /\ calls' = [calls EXCEPT ![p] = inv]
    /\ projects' = rows
    /\ result' = IF inv.pc = "returned"
                 THEN [ProjectOutcome(inv.action, inv.projectId) EXCEPT !.error = inv.error]
                 ELSE result
    /\ UNCHANGED <<project_links, project_commands, project_memory, project_tasks,
                   task_status_history, project_task_dependencies, task_attempts,
                   auto_increment, runner>>

\* const project = await this.ensureProject(projectId), and the test of nextState
\* against the transitions of the state it returned
Step_ensureProject ==
    \E p \in Procs :
        LET inv == calls[p]
            row == projects[inv.projectId]
            nextState == IF inv.input.state = NULL THEN row.state ELSE inv.input.state
        IN  /\ inv.pc = "ensureProject"
            /\ AdvanceProject(p,
                   IF inv.projectId \notin DOMAIN projects
                   THEN Throw(inv, "Project not found: " \o inv.projectId)
                   ELSE IF /\ nextState # row.state
                           /\ nextState \notin PROJECT_STATE_TRANSITIONS(row.state)
                   THEN Throw(inv, "Invalid project state transition: " \o row.state
                                   \o " -> " \o nextState)
                   ELSE [inv EXCEPT !.pc = "update", !.project = row,
                                    !.nextState = nextState],
                   projects)

\* await execute(`UPDATE projects SET ...`)
Step_update_project ==
    \E p \in Procs :
        LET inv == calls[p] IN
        /\ inv.pc = "update"
        /\ AdvanceProject(p, [inv EXCEPT !.pc = "project_get"], UpdateProject(projects, inv))

\* return await this.project_get({ projectId })
Step_project_get ==
    \E p \in Procs :
        LET inv == calls[p] IN
        /\ inv.pc = "project_get"
        /\ AdvanceProject(p,
               IF inv.projectId \notin DOMAIN projects
               THEN Throw(inv, "Project not found: " \o inv.projectId)
               ELSE Return(inv),
               projects)

InitProjectRace ==
    /\ \E state \in PROJECT_STATES :
         Holds([OneProject EXCEPT !.projects[TheProject].state = state])
    /\ NoRunner
    /\ result = ProjectOutcome("project_create", TheProject)
    /\ \E first \in ProjectRaceInputs, second \in ProjectRaceInputs :
         calls = [p \in Procs |->
                    ProjectInvocation(TheProject, IF p = 1 THEN first ELSE second)]

NextProjectRace ==
    \/ Step_ensureProject
    \/ Step_update_project
    \/ Step_project_get

SpecProjectRace == InitProjectRace /\ [][NextProjectRace]_vars

-----------------------------------------------------------------------------
(* Helpers of the claims *)

-----------------------------------------------------------------------------
(* SpecMix: two invocations of action methods, the same one or two different   *)
(* ones, on one task, both in flight, advancing as in SpecRace by one awaited  *)
(* call at a time.                                                             *)

\* the action methods in the order the service declares them
MixActions ==
    <<"task_start", "task_request_review", "task_approve", "task_request_changes",
      "task_merge", "task_resolve_conflict", "task_build", "task_deploy", "task_complete",
      "task_cancel", "task_block", "task_unblock">>

InitMix ==
    /\ \E row \in RaceProjects : projects = (TheProject :> row)
    /\ NoOthers
    /\ NoRunner
    /\ \E input \in [1..MaxRaceTasks -> RaceInputs] :
         LET db == Populated(MaxRaceTasks, project, input) IN
         /\ IsBrought(db, input)
         /\ project_tasks = db.tasks
         /\ task_status_history = db.history
    /\ project_task_dependencies = {}
    /\ result = Outcome("project_get", NoTask, "")
    /\ \E i \in DOMAIN MixActions, j \in DOMAIN MixActions, taskId \in 1..MaxRaceTasks :
         /\ i <= j
         /\ calls = [p \in Procs |->
                       Begin(MixActions[IF p = 1 THEN i ELSE j], taskId,
                             project_tasks[taskId].status, Len(task_status_history))]

SpecMix == InitMix /\ [][NextRace]_vars

TaskIds == DOMAIN project_tasks

Task(t) == project_tasks[t]

\* the rows of task_status_history of one task, oldest first
HistoryOf(history, t) == SelectSeq(history, LAMBDA row : row.task_id = t)

LastRow(seq) == seq[Len(seq)]

HasHistory(t) == HistoryOf(task_status_history, t) # <<>>

LastHistory(t) == LastRow(HistoryOf(task_status_history, t))

Succeeded(action) == result.action = action /\ result.error = ""

FailedWith(action, error) == result.action = action /\ result.error = error

TERMINAL == {"done", "cancelled"}

\* the status table of the data model: the to_status values listed for a task
SpecToStatuses(task) ==
    LET from == task.status IN
    (CASE from = "requirements"      -> {"implementing"}
       [] from = "implementing"      -> {"review_requested", "approved"}
       [] from = "review_requested"  -> {"approved", "changes_requested"}
       [] from = "changes_requested" -> {"implementing", "review_requested"}
       [] from = "approved"          -> {"merging"}
       [] from = "merging"           -> {"merge_conflict", "building", "deploying", "done"}
       [] from = "merge_conflict"    -> {"merging"}
       [] from = "building"          -> {"deploying", "done"}
       [] from = "deploying"         -> {"done"}
       [] OTHER                      -> {})
    \cup (IF from \notin TERMINAL \cup {"blocked"} THEN {"blocked"} ELSE {})
    \cup (IF from = "blocked" THEN {task.status_before_blocked} ELSE {})
    \cup {"cancelled"}

\* what the action methods allow beyond the table, in one call
ActionToStatuses(task) ==
    LET from == task.status IN
    (IF from \in TASK_STATUSES \ (TERMINAL \cup {"blocked"}) THEN {"done"} ELSE {})
    \cup (IF from = "approved" THEN {"building", "deploying"} ELSE {})
    \cup (IF from = "approved" /\ task.requires_branching THEN {"merge_conflict"} ELSE {})
    \cup (IF from = "implementing" /\ ~task.requires_branching
          THEN {"building", "deploying"} ELSE {})
    \cup (IF from = "merge_conflict" /\ task.requires_branching
          THEN {"building", "deploying"} ELSE {})

-----------------------------------------------------------------------------
(* C1 *)

\* C1 as claimed: after every call a task's status is unchanged or a to_status
\* the status table lists for the status it held before the call.
C1_TransitionSoundness_Claimed ==
    [][\A t \in TaskIds :
         \/ project_tasks'[t].status = Task(t).status
         \/ project_tasks'[t].status \in SpecToStatuses(Task(t))]_vars

\* C1 amended: after every call a task's status is unchanged, a to_status of the
\* status table, or one of the moves the action methods add to the table:
\* any non-terminal non-blocked status -> done; approved -> building/deploying;
\* approved -> merge_conflict and merge_conflict -> building/deploying (branching
\* task_merge); implementing -> building/deploying (task_merge without branching).
C1_TransitionSoundness ==
    [][\A t \in TaskIds :
         \/ project_tasks'[t].status = Task(t).status
         \/ project_tasks'[t].status \in SpecToStatuses(Task(t)) \cup ActionToStatuses(Task(t))]_vars

\* a task_merge has moved a task without branching from implementing to building
C1_Witness ==
    /\ Succeeded("task_merge")
    /\ \E t \in TaskIds :
         /\ ~Task(t).requires_branching
         /\ LastHistory(t).from_status = "implementing"
         /\ LastHistory(t).to_status = "building"
         /\ Task(t).status = "building"

-----------------------------------------------------------------------------
(* C2 *)

\* C2 as claimed: completed_at is non-null exactly when the status is done.
C2_CompletionFlag_Claimed ==
    \A t \in TaskIds : (Task(t).completed_at # NULL) <=> (Task(t).status = "done")

-----------------------------------------------------------------------------
(* C3 *)

\* the rows form a chain of real status changes from status a to status b
IsChain(rows, a, b) ==
    /\ \A i \in DOMAIN rows : rows[i].from_status # rows[i].to_status
    /\ rows # <<>> => rows[1].from_status = a /\ LastRow(rows).to_status = b
    /\ \A i \in 1..(Len(rows) - 1) : rows[i + 1].from_status = rows[i].to_status
    /\ rows = <<>> => a = b

\* the rows a step has appended for task t
Appended(t) ==
    LET old == HistoryOf(task_status_history, t)
        new == HistoryOf(task_status_history', t)
    IN  SubSeq(new, Len(old) + 1, Len(new))

StatusBefore(t) == IF t \in TaskIds THEN Task(t).status ELSE NULL

\* every call appends exactly the rows of the status changes it makes,
\* and never rewrites a row
RowsFollowStatus ==
    \A t \in DOMAIN project_tasks' :
         /\ HistoryOf(task_status_history', t)
              = HistoryOf(task_status_history, t) \o Appended(t)
         /\ IsChain(Appended(t), StatusBefore(t), project_tasks'[t].status)

\* C3 as claimed: the history is one (NULL -> requirements) row per task followed
\* by one row per status change with matching from/to, and a call that fails
\* appends no row.
C3_HistoryCompleteness_Claimed ==
    [][/\ RowsFollowStatus
       /\ result'.error # "" => task_status_history' = task_status_history]_vars

\* C3 amended: the history is one (NULL -> requirements) row per task followed by
\* one row per status change with matching from/to; a call that fails without
\* having changed the status appends no row, and a call that fails after its
\* transition was committed (task_start's git step, task_merge after the move to
\* merging) leaves the row of that change.
C3_HistoryCompleteness ==
    [][/\ RowsFollowStatus
       /\ \A t \in DOMAIN project_tasks' :
            result'.error # "" /\ project_tasks'[t].status = StatusBefore(t)
               => Appended(t) = <<>>]_vars

\* a task_start has failed in its git step and its row is in the history
C3_Witness ==
    /\ FailedWith("task_start", "createWorktree failed")
    /\ \E t \in TaskIds :
         /\ Len(HistoryOf(task_status_history, t)) >= 2
         /\ LastHistory(t).to_status = "implementing"
         /\ LastHistory(t).reason = "task started"

-----------------------------------------------------------------------------
(* C4 *)

\* C4 as claimed: status_before_blocked is non-null exactly when the status is
\* blocked.
C4_StatusBeforeBlocked_Claimed ==
    \A t \in TaskIds : (Task(t).status_before_blocked # NULL) <=> (Task(t).status = "blocked")

-----------------------------------------------------------------------------
(* C5 *)

TRANSITION_FAILED == "Task status transition failed"

\* both invocations have returned or thrown
BothReturned == \A p \in Procs : calls[p].pc = "returned"

\* the statuses from which one call of the action alone passes its transition
RaceAllowedFrom(action, task, proj) ==
    CASE action = "task_start"            -> {"requirements", "changes_requested"}
      [] action = "task_request_review"   ->
           IF task.requires_human_review THEN {"implementing", "changes_requested"}
           ELSE {"review_requested", "implementing", "changes_requested"}
      [] action = "task_approve"          ->
           IF task.requires_human_review THEN {"review_requested"}
           ELSE {"review_requested", "implementing", "changes_requested"}
      [] action = "task_request_changes"  -> {"review_requested"}
      [] action = "task_merge"            ->
           IF task.requires_branching THEN {"approved", "merge_conflict"}
           ELSE IF proj.has_build_step \/ proj.has_deploy_step THEN {"approved", "implementing"}
           ELSE TASK_STATUSES \ (TERMINAL \cup {"blocked"})
      [] action = "task_resolve_conflict" -> {"merge_conflict"}
      [] action = "task_build"            ->
           IF proj.has_build_step THEN {"building", "merging", "approved"} ELSE {}
      [] action = "task_deploy"           -> {"deploying", "building", "merging", "approved"}
      [] action = "task_complete"         -> TASK_STATUSES \ (TERMINAL \cup {"blocked"})
      [] action = "task_cancel"           -> TASK_STATUSES \ {"cancelled"}
      [] action = "task_block"            -> TASK_STATUSES \ (TERMINAL \cup {"blocked"})
      [] action = "task_unblock"          -> {"blocked"}

\* the race is over and began in a status from which the action is allowed
RaceOver(p) ==
    /\ BothReturned
    /\ calls[p].began \in RaceAllowedFrom(calls[p].action, Task(calls[p].taskId), project)

\* the race has changed the status once and appended one row, the row of that change
OneChange(p) ==
    LET inv == calls[p] IN
    /\ Task(inv.taskId).status # inv.began
    /\ Len(task_status_history) = inv.rows + 1
    /\ LastRow(task_status_history).task_id = inv.taskId
    /\ LastRow(task_status_history).from_status = inv.began
    /\ LastRow(task_status_history).to_status = Task(inv.taskId).status

WinnerErrors(action) ==
    IF action = "task_start"
    THEN {"", "Project workspace_path required for branching tasks", "createWorktree failed"}
    ELSE {""}

\* how the invocation that did not pass its conditional UPDATE ends
LoserErrors(action) ==
    CASE action = "task_block"   -> {TRANSITION_FAILED, ""}
      [] action = "task_unblock" -> {TRANSITION_FAILED, "task is not blocked"}
      [] OTHER                   -> {TRANSITION_FAILED}

-----------------------------------------------------------------------------
(* C6 *)

POST_MERGE == {"building", "deploying", "done"}

\* the step is a task_merge of task t whose git merge succeeds
MergeRetry(t) == Finish("task_merge", t, task_merge(CurrentDb, project, t, "success"))

\* the task is in merging because task_resolve_conflict has just put it there
ConflictResolved(t) ==
    /\ Succeeded("task_resolve_conflict")
    /\ result.taskId = t
    /\ Task(t).requires_branching
    /\ Task(t).status = "merging"
    /\ LastHistory(t).from_status = "merge_conflict"

\* C6 as claimed: after a task_merge of a branching task ended in merge_conflict
\* and task_resolve_conflict moved it to merging, a task_merge whose git merge
\* succeeds returns and leaves the task in building, deploying or done.
C6_RemergeAfterConflict_Claimed ==
    [][\A t \in TaskIds :
         ConflictResolved(t) /\ MergeRetry(t)
            => result'.error = "" /\ project_tasks'[t].status \in POST_MERGE]_vars

-----------------------------------------------------------------------------
(* C7 *)

\* task t depends on a task that is not done
DependsOnUndone(t) ==
    \E u \in TaskIds : <<t, u>> \in project_task_dependencies /\ Task(u).status # "done"

READY_STATUSES ==
    {"requirements", "implementing", "changes_requested", "review_requested", "approved",
     "merge_conflict"}

\* the tasks task_next may return
Ready == {t \in TaskIds : Task(t).status \in READY_STATUSES /\ ~DependsOnUndone(t)}

\* priority descending, created_at ascending, id ascending
ComesFirst(t, u) ==
    LET a == Task(t)
        b == Task(u)
    IN  IF a.priority # b.priority THEN a.priority > b.priority
        ELSE IF a.created_at # b.created_at THEN a.created_at < b.created_at
        ELSE t <= u

\* C7: what task_next returned is never a task that depends on a task not done,
\* never a task outside {requirements, implementing, changes_requested,
\* review_requested, approved, merge_conflict}; when some task is eligible it is
\* the first eligible one by (priority descending, created_at ascending, id
\* ascending), and otherwise it is nothing.
C7_DependencyReadiness ==
    result.action = "task_next" =>
        LET t == result.taskId IN
        /\ t # NoTask => /\ t \in TaskIds
                         /\ ~DependsOnUndone(t)
                         /\ Task(t).status \in READY_STATUSES
        /\ Ready # {} => t \in Ready /\ \A u \in Ready : ComesFirst(t, u)
        /\ Ready = {} => t = NoTask

\* task_next has returned task 2 although task 1 has the higher priority and an
\* eligible status: task 1 depends on task 2, that is not done
C7_Witness ==
    /\ result.action = "task_next"
    /\ result.taskId = 2
    /\ Task(1).priority > Task(2).priority
    /\ Task(1).status \in READY_STATUSES
    /\ <<1, 2>> \in project_task_dependencies

-----------------------------------------------------------------------------
(* C8 *)

\* the step is a call of the action on task t
Calls(action, t) == result'.action = action /\ result'.taskId = t /\ vars' # vars

\* task_block has just blocked task t, that was in status S before
JustBlocked(t, S) ==
    /\ Succeeded("task_block")
    /\ result.taskId = t
    /\ Task(t).status = "blocked"
    /\ LastHistory(t).from_status = S
    /\ LastHistory(t).to_status = "blocked"

\* C8: when task_block has blocked a task that was in a status S, neither
\* terminal nor blocked, and the next call on the task is task_unblock, that call
\* returns and the task is in S again.
C8_BlockRoundTrip ==
    [][\A t \in TaskIds : \A S \in TASK_STATUSES \ (TERMINAL \cup {"blocked"}) :
         JustBlocked(t, S) /\ Calls("task_unblock", t)
            => result'.error = "" /\ project_tasks'[t].status = S]_vars

\* a task blocked in merge_conflict has been unblocked and is in merge_conflict
C8_Witness ==
    /\ Succeeded("task_unblock")
    /\ \E t \in TaskIds :
         LET rows == HistoryOf(task_status_history, t) IN
         /\ Len(rows) >= 3
         /\ rows[Len(rows) - 1].from_status = "merge_conflict"
         /\ rows[Len(rows) - 1].to_status = "blocked"
         /\ LastRow(rows).from_status = "blocked"
         /\ Task(t).status = "merge_conflict"

-----------------------------------------------------------------------------
(* C9 *)

\* C9: a task_request_review that returns leaves the task in approved when
\* requires_human_review is false and in review_requested when it is true, and
\* in the latter case the task was in implementing or changes_requested.
C9_AutoApproveLaw ==
    [][\A t \in TaskIds :
         Calls("task_request_review", t) /\ result'.error = ""
            => IF ~Task(t).requires_human_review
               THEN project_tasks'[t].status = "approved"
               ELSE /\ project_tasks'[t].status = "review_requested"
                    /\ Task(t).status \in {"implementing", "changes_requested"}]_vars

\* a task without human review has been auto-approved by task_request_review
C9_Witness ==
    /\ Succeeded("task_request_review")
    /\ \E t \in TaskIds :
         /\ ~Task(t).requires_human_review
         /\ Task(t).status = "approved"
         /\ LastHistory(t).reason = "auto-approved"

-----------------------------------------------------------------------------
(* C10 *)

\* the statuses the claim lets task_approve succeed from
ApprovableFrom(requiresHumanReview) ==
    IF requiresHumanReview THEN {"review_requested"}
    ELSE {"review_requested", "implementing", "changes_requested"}

\* the database with task t put in status s
WithStatus(db, t, s) == Db([db.tasks EXCEPT ![t].status = s], db.history)

\* task_approve on task t in status s returns exactly from the statuses of the
\* claim, then leaves approved, and otherwise leaves the status alone
ApproveDecides(t, s) ==
    LET r == task_approve(WithStatus(CurrentDb, t, s), t, NULL) IN
    /\ ~Failed(r) <=> s \in ApprovableFrom(Task(t).requires_human_review)
    /\ r.tasks[t].status = IF Failed(r) THEN s ELSE "approved"

\* C10: task_approve returns exactly when the task is in review_requested or,
\* for a task with requires_human_review false, in implementing or
\* changes_requested; it then leaves approved, and from every other status it
\* fails and leaves the status unchanged. Stated of every call made and of the
\* handler applied to every task of the table in every status.
C10_ApproveAllowedFrom ==
    [][\A t \in TaskIds :
         Calls("task_approve", t)
            => /\ result'.error = ""
                    <=> Task(t).status \in ApprovableFrom(Task(t).requires_human_review)
               /\ project_tasks'[t].status
                    = IF result'.error = "" THEN "approved" ELSE Task(t).status
               /\ \A s \in TASK_STATUSES : ApproveDecides(t, s)]_vars

\* task_approve has approved a task without human review straight from implementing
C10_Witness ==
    /\ Succeeded("task_approve")
    /\ \E t \in TaskIds :
         /\ ~Task(t).requires_human_review
         /\ LastHistory(t).from_status = "implementing"
         /\ Task(t).status = "approved"

-----------------------------------------------------------------------------
(* C12 *)

\* C12 as claimed: whenever a task with requires_branching = true is in
\* implementing after a task_start call has returned, successfully or not, it
\* has a non-null git_branch and a non-null worktree_path.
C12_BranchingInvariant_Claimed ==
    \A t \in TaskIds :
        Task(t).requires_branching /\ Task(t).status = "implementing"
           => Task(t).git_branch # NULL /\ Task(t).worktree_path # NULL

-----------------------------------------------------------------------------
(* C13 *)

WORKTREE_ERRORS ==
    {"Project workspace_path required for branching tasks", "createWorktree failed"}

\* task_start is called on task t and its worktree step cannot succeed: the
\* project has no workspace_path or createWorktree fails
StartWithoutWorktree(t) ==
    \E git \in {"ok", "error"} :
        /\ project.workspace_path = NULL \/ git = "error"
        /\ Finish("task_start", t, task_start(CurrentDb, project, t, git))

\* C13: task_start on a branching task in requirements or changes_requested,
\* when the project has no workspace_path or createWorktree fails, returns an
\* error, yet the transition to implementing and its history row are committed,
\* and git_branch and worktree_path are left as they were.
C13_StartFailsAfterCommit ==
    [][\A t \in TaskIds :
         /\ Task(t).requires_branching
         /\ Task(t).status \in {"requirements", "changes_requested"}
         /\ StartWithoutWorktree(t)
         => /\ result'.error \in WORKTREE_ERRORS
            /\ project_tasks'[t].status = "implementing"
            /\ task_status_history'
                 = Append(task_status_history,
                          [task_id |-> t, from_status |-> Task(t).status,
                           to_status |-> "implementing", reason |-> "task started"])
            /\ project_tasks'[t].git_branch = Task(t).git_branch
            /\ project_tasks'[t].worktree_path = Task(t).worktree_path]_vars

\* a task sent back from review is started again, createWorktree fails: the task
\* is in implementing and keeps the branch of its first start
C13_Witness ==
    /\ FailedWith("task_start", "createWorktree failed")
    /\ \E t \in TaskIds :
         /\ result.taskId = t
         /\ Task(t).status = "implementing"
         /\ LastHistory(t).from_status = "changes_requested"
         /\ Task(t).git_branch # NULL

-----------------------------------------------------------------------------
(* C14 *)

\* the call that has just returned made this call of git.ts
Git(fn, outcome) == [fn |-> fn, outcome |-> outcome]

\* the call that is returning has awaited mergeBranch, which ended in merged
MergeReports(merged) == Git("mergeBranch", merged) \in result'.git

\* where a merged task goes: the build step, else the deploy step, else done
AfterMerge ==
    IF project.has_build_step THEN "building"
    ELSE IF project.has_deploy_step THEN "deploying"
    ELSE "done"

\* the rows the call that is returning has appended to task_status_history
NewRows ==
    SubSeq(task_status_history', Len(task_status_history) + 1, Len(task_status_history'))

\* C14: task_merge on a branching task is refused, changing nothing, unless the
\* task is in approved or merge_conflict; from these it first moves the task to
\* merging and then, the project having a workspace_path and the task a
\* git_branch, runs mergeBranch; when the merge reports a conflict the task ends
\* in merge_conflict; when it succeeds the task ends in building if the project
\* has a build step, else in deploying if it has a deploy step, else in done
\* with completed_at set.
C14_MergeSequence ==
    [][\A t \in TaskIds :
         Task(t).requires_branching /\ Calls("task_merge", t)
         => IF Task(t).status \notin {"approved", "merge_conflict"}
            THEN /\ result'.error # ""
                 /\ result'.git = {}
                 /\ project_tasks' = project_tasks
                 /\ task_status_history' = task_status_history
            ELSE /\ NewRows # <<>>
                 /\ NewRows[1].from_status = Task(t).status
                 /\ NewRows[1].to_status = "merging"
                 /\ project.workspace_path # NULL /\ Task(t).git_branch # NULL
                      => \E c \in result'.git : c.fn = "mergeBranch"
                 /\ MergeReports("conflict")
                      => /\ result'.error = ""
                         /\ project_tasks'[t].status = "merge_conflict"
                         /\ Len(NewRows) = 2
                         /\ NewRows[2].from_status = "merging"
                         /\ NewRows[2].to_status = "merge_conflict"
                 /\ MergeReports("success")
                      => /\ result'.error = ""
                         /\ project_tasks'[t].status = AfterMerge
                         /\ Len(NewRows) = 2
                         /\ NewRows[2].from_status = "merging"
                         /\ NewRows[2].to_status = AfterMerge
                         /\ AfterMerge = "done"
                              => project_tasks'[t].completed_at # NULL]_vars

\* a branching task of a project with neither step has been merged: the merge
\* ran and succeeded, the task went through merging to done, completed_at is set
C14_Witness ==
    /\ Succeeded("task_merge")
    /\ result.git = {Git("mergeBranch", "success")}
    /\ \E t \in TaskIds :
         LET rows == HistoryOf(task_status_history, t) IN
         /\ result.taskId = t
         /\ Task(t).requires_branching
         /\ Task(t).status = "done"
         /\ Task(t).completed_at # NULL
         /\ Len(rows) >= 2
         /\ rows[Len(rows) - 1].to_status = "merging"
         /\ rows[Len(rows)].from_status = "merging"

-----------------------------------------------------------------------------
(* C15 *)

\* the task and the project of scenario S3: no branch, no review, no build
\* step, no deploy step
S3(t) ==
    /\ ~Task(t).requires_branching
    /\ ~Task(t).requires_human_review
    /\ ~project.has_build_step
    /\ ~project.has_deploy_step

\* the call that is returning has returned and has moved task t to a status,
\* with one row in the history
StepsTo(t, status) ==
    /\ result'.error = ""
    /\ project_tasks'[t].status = status
    /\ Len(NewRows) = 1
    /\ NewRows[1].task_id = t
    /\ NewRows[1].from_status = Task(t).status
    /\ NewRows[1].to_status = status

\* C15: for a task that requires neither branching nor human review, in a
\* project with neither build nor deploy step, task_start on the added task
\* returns and leaves it in implementing, task_request_review then returns and
\* leaves it in approved, task_merge then returns and leaves it in done with
\* completed_at set and no call of git.ts; each of the three appends exactly one
\* history row.
C15_LinearPath ==
    [][\A t \in TaskIds :
         S3(t) =>
           /\ Task(t).status = "requirements" /\ Calls("task_start", t)
                => StepsTo(t, "implementing")
           /\ Task(t).status = "implementing" /\ Calls("task_request_review", t)
                => StepsTo(t, "approved") /\ NewRows[1].reason = "auto-approved"
           /\ Task(t).status = "approved" /\ Calls("task_merge", t)
                => /\ StepsTo(t, "done")
                   /\ project_tasks'[t].completed_at # NULL
                   /\ result'.git = {}]_vars

\* the three calls have been made on a hotfix-like task: its history is the
\* creation and the three steps, it is done and completed_at is set
C15_Witness ==
    /\ Succeeded("task_merge")
    /\ \E t \in TaskIds :
         LET rows == HistoryOf(task_status_history, t) IN
         /\ S3(t)
         /\ Len(rows) = 4
         /\ rows[2].to_status = "implementing"
         /\ rows[3].to_status = "approved" /\ rows[3].reason = "auto-approved"
         /\ rows[4].from_status = "approved" /\ rows[4].to_status = "done"
         /\ Task(t).status = "done"
         /\ Task(t).completed_at # NULL

-----------------------------------------------------------------------------
(* C16 *)

\* C16: a call on a task with requires_branching = false, whatever calls came
\* before it, invokes none of createWorktree, mergeBranch and removeWorktree,
\* and task_merge never leaves such a task in merging or merge_conflict.
C16_NoGitWithoutBranching ==
    \A t \in TaskIds :
        ~Task(t).requires_branching /\ result.taskId = t
           => /\ result.git = {}
              /\ result.action = "task_merge"
                   => Task(t).status \notin {"merging", "merge_conflict"}

\* a task without branching, started and approved in a project with a workspace,
\* has been cancelled: no call of git.ts was made
C16_Witness ==
    /\ Succeeded("task_cancel")
    /\ result.git = {}
    /\ project.workspace_path # NULL
    /\ \E t \in TaskIds :
         /\ result.taskId = t
         /\ ~Task(t).requires_branching
         /\ Task(t).status = "cancelled"
         /\ LastHistory(t).from_status = "approved"

-----------------------------------------------------------------------------
(* C17 *)

\* C17 as claimed: task_complete moves a task to done, with completed_at set,
\* from every status other than cancelled and done; on a cancelled or done task
\* it fails and leaves the task unchanged.
C17_CompleteFromAnywhere_Claimed ==
    [][\A t \in TaskIds :
         Calls("task_complete", t)
         => IF Task(t).status \in {"cancelled", "done"}
            THEN result'.error # "" /\ project_tasks'[t] = Task(t)
            ELSE /\ result'.error = ""
                 /\ project_tasks'[t].status = "done"
                 /\ project_tasks'[t].completed_at # NULL]_vars

-----------------------------------------------------------------------------
(* C18 *)

-----------------------------------------------------------------------------
(* C11 *)

LOCKED(id) == "Command " \o ToString(id) \o " is locked"

REASON_REQUIRED == "force reason required when mutating locked command"

DUPLICATE_LABEL == "Duplicate entry for key uq_cmd"

\* the caller passes force = true and a reason that is not blank
Forced(force, reason) == force = "true" /\ reason \notin {NULL, "", " "}

\* cmd_remove or cmd_update is called on command id with a force flag and a reason
Mutates(id, force, reason) ==
    /\ result'.commandId = id
    /\ \/ /\ result'.action = "cmd_remove"
          /\ Commit(CmdOutcome("cmd_remove", id),
                    cmd_remove(CurrentStore, id, force, reason))
       \/ /\ result'.action = "cmd_update"
          /\ \E label \in CommandLabels \cup {NULL}, text \in {NULL, "make all"} :
               Commit(CmdOutcome("cmd_update", id),
                      cmd_update(CurrentStore, id, force, reason, label, text))

\* the call that is returning was refused by the lock and changed nothing
Refused(id, force) ==
    /\ result'.error = IF force = "true" THEN REASON_REQUIRED ELSE LOCKED(id)
    /\ project_commands' = project_commands

\* the call that is returning went through: cmd_remove has deleted the row,
\* cmd_update has returned
WentThrough(id) ==
    /\ result'.error = ""
    /\ result'.action = "cmd_remove" => id \notin DOMAIN project_commands'
    /\ result'.action = "cmd_update" => id \in DOMAIN project_commands'

-----------------------------------------------------------------------------
(* C19 *)

\* the edges of the project state machine
PROJECT_EDGES ==
    {<<"planning", "active">>, <<"active", "paused">>, <<"active", "complete">>,
     <<"paused", "active">>, <<"paused", "archived">>, <<"complete", "archived">>,
     <<"archived", "active">>}

\* project_update is called on project P with a state
UpdatesTo(P, state) ==
    /\ result'.action = "project_update"
    /\ result'.projectId = P
    /\ \E name \in {NULL, "renamed"}, workspacePath \in {NULL, "/moved"},
          hasBuildStep \in BuildStepInputs, hasDeployStep \in DeployStepInputs :
           Commit(ProjectOutcome("project_update", P),
                  project_update(CurrentStore, P, name, state, workspacePath,
                                 hasBuildStep, hasDeployStep))

\* C19: a project is created in planning; a project_update that asks for another
\* state than the project's succeeds and sets it when the change is an edge of
\* planning -> active, active -> paused, active -> complete, paused -> active,
\* paused -> archived, complete -> archived, archived -> active, and otherwise
\* fails with "Invalid project state transition: {from} -> {to}" and leaves the
\* whole row unchanged; no call changes the state of a project along anything
\* but an edge.
C19_ProjectStateMachine ==
    [][/\ \A P \in DOMAIN projects' \ DOMAIN projects : projects'[P].state = "planning"
       /\ \A P \in DOMAIN projects \cap DOMAIN projects' :
            projects'[P].state # projects[P].state
               => <<projects[P].state, projects'[P].state>> \in PROJECT_EDGES
       /\ \A P \in DOMAIN projects : \A state \in StateInputs \ {NULL, projects[P].state} :
            UpdatesTo(P, state)
            => IF <<projects[P].state, state>> \in PROJECT_EDGES
               THEN result'.error = "" /\ projects'[P].state = state
               ELSE /\ result'.error = "Invalid project state transition: "
                                         \o projects[P].state \o " -> " \o state
                    /\ projects' = projects]_vars

\* a complete project was asked to become active again: the call has failed
C19_Witness ==
    /\ FailedWith("project_update", "Invalid project state transition: complete -> active")
    /\ result.projectId \in DOMAIN projects
    /\ projects[result.projectId].state = "complete"

-----------------------------------------------------------------------------
(* C20 *)

\* the tasks that belong to project P
TasksOf(P) == OwnedBy(project_tasks, P)

\* the rows of a table that do not belong to project P
OfOthers(rows, P) == Delete(rows, OwnedBy(rows, P))

\* project_delete of project P is returning and has deleted the project
Deleted(P) ==
    /\ result'.action = "project_delete"
    /\ result'.projectId = P
    /\ result'.error = ""
    /\ result'.deleted = 1

\* C20: after project_delete(P) has deleted project P, no link, command, task or
\* memory row with project_id P remains, and no dependency, status-history or
\* attempt row of a task that belonged to P, a dependency between a task of P and
\* a task of another project included; every other row is as it was.
C20_DeleteCascades ==
    [][\A P \in DOMAIN projects :
         Deleted(P)
         => /\ P \notin DOMAIN projects'
            /\ OwnedBy(project_links', P) = {}
            /\ OwnedBy(project_commands', P) = {}
            /\ OwnedBy(project_memory', P) = {}
            /\ OwnedBy(project_tasks', P) = {}
            /\ \A dep \in project_task_dependencies' :
                 dep[1] \notin TasksOf(P) /\ dep[2] \notin TasksOf(P)
            /\ \A i \in DOMAIN task_status_history' :
                 task_status_history'[i].task_id \notin TasksOf(P)
            /\ \A a \in DOMAIN task_attempts' : task_attempts'[a].task_id \notin TasksOf(P)
            /\ projects' = Delete(projects, {P})
            /\ project_links' = OfOthers(project_links, P)
            /\ project_commands' = OfOthers(project_commands, P)
            /\ project_memory' = OfOthers(project_memory, P)
            /\ project_tasks' = OfOthers(project_tasks, P)
            /\ \A dep \in project_task_dependencies :
                 dep[1] \notin TasksOf(P) /\ dep[2] \notin TasksOf(P)
                    => dep \in project_task_dependencies'
            /\ task_status_history'
                 = SelectSeq(task_status_history, LAMBDA row : row.task_id \notin TasksOf(P))
            /\ \A a \in DOMAIN task_attempts :
                 task_attempts[a].task_id \notin TasksOf(P)
                    => a \in DOMAIN task_attempts' /\ task_attempts'[a] = task_attempts[a]]_vars

\* a project that owned the second task and the link has been deleted: the other
\* project and its task, the first, are still there
C20_Witness ==
    /\ result.action = "project_delete" /\ result.deleted = 1
    /\ auto_increment.project_tasks = 2
    /\ auto_increment.project_links = 1
    /\ DOMAIN project_tasks = {1}
    /\ project_links = NoRows
    /\ project_tasks[1].project_id \in DOMAIN projects
    /\ result.projectId \notin DOMAIN projects

-----------------------------------------------------------------------------
(* C21 *)

\* the flags the spec gives each task type: <<requires_branching, requires_human_review>>
TypeFlags(taskType) ==
    CASE taskType = "feature"   -> <<TRUE, TRUE>>
      [] taskType = "bugfix"    -> <<TRUE, FALSE>>
      [] taskType = "iteration" -> <<FALSE, TRUE>>
      [] taskType = "hotfix"    -> <<FALSE, FALSE>>
      [] taskType = "chore"     -> <<TRUE, FALSE>>

\* the flag of a request: the override when the request has one, else the type's
FlagOf(override, ofType) == IF override = NULL THEN ofType ELSE override = "true"

\* task_add is called for a task of this type with these two overrides
Adds(taskType, rb, rhr) ==
    /\ result'.action = "task_add"
    /\ \E prio \in Priorities :
         Finish("task_add", Len(project_tasks) + 1,
                task_add(CurrentDb, TheProject, taskType, rb, rhr, prio, Now))

\* C21: task_add creates the task in status requirements with
\* status_before_blocked and completed_at null, with requires_branching and
\* requires_human_review taken from the task type (feature: true/true, bugfix:
\* true/false, iteration: false/true, hotfix: false/false, chore: true/false)
\* unless the request overrides them, and writes exactly one history row
\* (NULL -> requirements); the tasks and history rows there were stay as they are.
C21_TaskAdd ==
    [][\A taskType \in TASK_TYPES, rb \in BoolInputs, rhr \in BoolInputs :
         Adds(taskType, rb, rhr)
         => LET t == result'.taskId IN
            /\ result'.error = ""
            /\ DOMAIN project_tasks' = DOMAIN project_tasks \cup {t}
            /\ t \notin DOMAIN project_tasks
            /\ \A u \in DOMAIN project_tasks : project_tasks'[u] = project_tasks[u]
            /\ project_tasks'[t].status = "requirements"
            /\ project_tasks'[t].status_before_blocked = NULL
            /\ project_tasks'[t].completed_at = NULL
            /\ project_tasks'[t].requires_branching = FlagOf(rb, TypeFlags(taskType)[1])
            /\ project_tasks'[t].requires_human_review = FlagOf(rhr, TypeFlags(taskType)[2])
            /\ Len(task_status_history') = Len(task_status_history) + 1
            /\ SubSeq(task_status_history', 1, Len(task_status_history)) = task_status_history
            /\ LastRow(task_status_history').task_id = t
            /\ LastRow(task_status_history').from_status = NULL
            /\ LastRow(task_status_history').to_status = "requirements"]_vars

\* task_add has just created a task that needs review and no branch (an iteration,
\* or a request that overrides the flags to that), with its one history row
C21_Witness ==
    /\ Succeeded("task_add")
    /\ result.taskId \in DOMAIN project_tasks
    /\ Task(result.taskId).status = "requirements"
    /\ ~Task(result.taskId).requires_branching
    /\ Task(result.taskId).requires_human_review
    /\ Len(HistoryOf(task_status_history, result.taskId)) = 1

-----------------------------------------------------------------------------
(* C22 *)

NO_BUILD_STEP == "project has_build_step is false"

\* task_build is returning from a call on task t
Builds(t) == result'.action = "task_build" /\ result'.taskId = t

\* the call that is returning has changed neither a task nor the history
LeftUnchanged ==
    /\ project_tasks' = project_tasks
    /\ task_status_history' = task_status_history

\* C22: task_build fails and leaves the task unchanged when the project's
\* has_build_step is false; otherwise it succeeds exactly from building, merging
\* and approved, moving the task to deploying when has_deploy_step is true and
\* to done when it is not, and changing nothing from any other status.
C22_BuildStep ==
    [][\A t \in DOMAIN project_tasks :
         Builds(t)
         => IF ~project.has_build_step
            THEN result'.error = NO_BUILD_STEP /\ LeftUnchanged
            ELSE IF Task(t).status \in {"building", "merging", "approved"}
            THEN /\ result'.error = ""
                 /\ project_tasks'[t].status
                      = IF project.has_deploy_step THEN "deploying" ELSE "done"
                 /\ LastRow(task_status_history').from_status = Task(t).status
                 /\ LastRow(task_status_history').to_status = project_tasks'[t].status
            ELSE result'.error = TRANSITION_FAILED /\ LeftUnchanged]_vars

\* task_build has been refused on an approved task of a project without build step
C22_Witness ==
    /\ FailedWith("task_build", NO_BUILD_STEP)
    /\ result.taskId \in DOMAIN project_tasks
    /\ Task(result.taskId).status = "approved"
    /\ ~project.has_build_step

-----------------------------------------------------------------------------
(* C23 *)

\* the message of task_merge for a merge that failed without a conflict (the
\* output of git, appended by the code, is left out)
MERGE_FAILED == "Merge failed"

\* task_merge is returning from a call on task t in which mergeBranch has
\* reported a failure that is not a conflict
MergeBreaks(t) ==
    /\ result'.action = "task_merge"
    /\ result'.taskId = t
    /\ Git("mergeBranch", "failure") \in result'.git

\* C23: when mergeBranch reports a failure that is not a conflict, task_merge
\* fails with "Merge failed: {output}", has made the transition to merging and
\* none after it, and leaves the task in status merging.
C23_MergeFailure ==
    [][\A t \in DOMAIN project_tasks :
         MergeBreaks(t)
         => /\ result'.error = MERGE_FAILED
            /\ project_tasks'[t] = [Task(t) EXCEPT !.status = "merging"]
            /\ Len(task_status_history') = Len(task_status_history) + 1
            /\ SubSeq(task_status_history', 1, Len(task_status_history)) = task_status_history
            /\ LastRow(task_status_history').task_id = t
            /\ LastRow(task_status_history').from_status = Task(t).status
            /\ LastRow(task_status_history').to_status = "merging"]_vars

\* task_merge has failed on a merge that broke without a conflict, on a task
\* that was approved: the task is in merging
C23_Witness ==
    /\ FailedWith("task_merge", MERGE_FAILED)
    /\ Git("mergeBranch", "failure") \in result.git
    /\ result.taskId \in DOMAIN project_tasks
    /\ Task(result.taskId).status = "merging"
    /\ LastHistory(result.taskId).from_status = "approved"

-----------------------------------------------------------------------------
(* C24 *)

\* the file the pass of recoverTaskRunnerState that is returning has read
PassInput == IF taskRunnerState = NotLoaded THEN stateFile ELSE Written(taskRunnerState)

\* recoverTaskRunnerState is returning from a pass over a well-formed state file
Recovers ==
    /\ returned'.op = "recover"
    /\ clock' = clock + 1
    /\ PassInput.text = "json" /\ PassInput.version = 1 /\ PassInput.tasksIsObject
    /\ ~PassInput.tasksIsNull

\* the ids of the records of a task map (its entries that are objects)
RecordIds(tasks) == {id \in DOMAIN tasks : IsObject(tasks[id])}

\* the record has no pid or its pid is not alive
PidGone(task) == task.pid = NoPid \/ task.pid \notin alive

\* what every pass does, whatever it marks lost: records stay records, those that
\* are running or pending with a live pid and the terminal ones keep their
\* status, stdinAttached is false on all, and none is running or pending without
\* a live pid
RecoveryKeeps ==
    LET before == PassInput.tasks
        after == taskRunnerState'.tasks
    IN  /\ RecordIds(after) = RecordIds(before)
        /\ \A id \in RecordIds(before) :
             /\ before[id].status \in {"running", "pending"} /\ ~PidGone(before[id])
                  => after[id].status = before[id].status
             /\ isTerminal(before[id].status) => after[id].status = before[id].status
             /\ after[id].stdinAttached = FALSE
             /\ after[id].status \in {"running", "pending"} => ~PidGone(after[id])

\* C24 as claimed: after recoverTaskRunnerState on a well-formed state file, a
\* record has status lost exactly when it already was lost or it was non-terminal
\* (running, pending or an unknown status) and its pid was missing or not alive;
\* the records running or pending with a live pid and the terminal ones keep
\* their status, stdinAttached is false on all records, and no record is running
\* or pending without a live pid.
C24_Recovery_Claimed ==
    [][Recovers
       => /\ RecoveryKeeps
          /\ \A id \in RecordIds(PassInput.tasks) :
               taskRunnerState'.tasks[id].status = "lost"
               <=> \/ PassInput.tasks[id].status = "lost"
                   \/ /\ ~isTerminal(PassInput.tasks[id].status)
                      /\ PidGone(PassInput.tasks[id])]_vars

\* C24: after recoverTaskRunnerState on a well-formed state file, a record has
\* status lost exactly when it already was lost, or it was running or pending
\* and its pid was missing or not alive, or its status was none of the seven
\* statuses (whatever its pid); the records running or pending with a live pid
\* and the terminal ones keep their status, stdinAttached is false on all
\* records, and no record is running or pending without a live pid.
C24_Recovery ==
    [][Recovers
       => /\ RecoveryKeeps
          /\ \A id \in RecordIds(PassInput.tasks) :
               taskRunnerState'.tasks[id].status = "lost"
               <=> \/ PassInput.tasks[id].status = "lost"
                   \/ /\ PassInput.tasks[id].status \in {"running", "pending"}
                      /\ PidGone(PassInput.tasks[id])
                   \/ PassInput.tasks[id].status \notin RUNNER_STATUSES]_vars

\* the first pass has marked lost the record x, which the file holds as running
\* with a pid that was not alive, next to the record y it has kept running
C24_Witness ==
    /\ returned.op = "recover"
    /\ clock = 2
    /\ DOMAIN stateFile.tasks = {"x", "y"}
    /\ stateFile.tasks["x"].status = "running"
    /\ stateFile.tasks["x"].pid = 11
    /\ 11 \notin returned.alive
    /\ taskRunnerState.tasks["x"].status = "lost"
    /\ taskRunnerState.tasks["x"].endedAt = 2
    /\ IsObject(taskRunnerState.tasks["y"])
    /\ taskRunnerState.tasks["y"].status = "running"

-----------------------------------------------------------------------------
(* C25 *)

\* recoverTaskRunnerState is returning from a pass over the state that the pass
\* before it has produced, with the pids alive that were alive then
RecoversAgain ==
    /\ returned'.op = "recover"
    /\ clock' = clock + 1
    /\ taskRunnerState # NotLoaded
    /\ returned.op = "recover"
    /\ returned.alive = alive

\* C25: recovery run a second time, on the state a first recovery has produced
\* and with the same pids alive, reports no change and leaves the status and the
\* endedAt of every record as the first pass left them.
C25_RecoveryIdempotent ==
    [][RecoversAgain
       => /\ returned'.changed = FALSE
          /\ DOMAIN taskRunnerState'.tasks = DOMAIN taskRunnerState.tasks
          /\ \A id \in RecordIds(taskRunnerState.tasks) :
               /\ taskRunnerState'.tasks[id].status = taskRunnerState.tasks[id].status
               /\ taskRunnerState'.tasks[id].endedAt = taskRunnerState.tasks[id].endedAt]_vars

\* a second pass has reported no change after a first pass that had marked the
\* running record x lost and given it its paths: x is as the first pass left it
C25_Witness ==
    /\ returned.op = "recover"
    /\ returned.changed = FALSE
    /\ clock = 3
    /\ taskRunnerState.updatedAt = 3
    /\ "x" \in DOMAIN stateFile.tasks
    /\ stateFile.tasks["x"].status = "running"
    /\ stateFile.tasks["x"].logPath = NULL
    /\ taskRunnerState.tasks["x"].status = "lost"
    /\ taskRunnerState.tasks["x"].endedAt = 2
    /\ taskRunnerState.tasks["x"].logPath = LogPath("x")

-----------------------------------------------------------------------------
(* C26 *)

\* the tasks the service holds
RunnerTasks == taskRunnerState.tasks

\* the step is a call of start with this request
Starts(req) ==
    /\ starting = NotStarting
    /\ returned'.op = "start" \/ starting' # NotStarting
    /\ starting' # NotStarting \/ spawned' # spawned \/ UNCHANGED <<alive, taskRunnerState>>
    /\ \E autoReplace \in BOOLEAN : start(req, autoReplace)

\* the call that is returning has spawned nothing and has left every record,
\* every process and the state file as they were
NothingStarted ==
    /\ UNCHANGED <<stateFile, alive, taskRunnerState, children, starting, spawned>>

\* C26: start with an id whose record is running or pending, with neither
\* replace nor force set, fails with "Task already exists", spawns no process and
\* leaves the existing record and its process untouched.
C26_DuplicateId ==
    [][\A req \in Requests :
         /\ ~req.replace /\ ~req.force
         /\ req.id \in DOMAIN RunnerTasks
         /\ IsActive(RunnerTasks[req.id])
         /\ Starts(req)
         => /\ returned' = Returns("start", ALREADY_EXISTS)
            /\ NothingStarted]_vars

\* start has been refused with "Task already exists" on the one task there is,
\* which the service has spawned and which is running
C26_Witness ==
    /\ returned = Returns("start", ALREADY_EXISTS)
    /\ \E id \in RunnerIds :
         /\ DOMAIN RunnerTasks = {id}
         /\ RunnerTasks[id].status = "running"
         /\ children = {[id |-> id, pid |-> RunnerTasks[id].pid]}
         /\ RunnerTasks[id].pid \in alive
    /\ spawned = 1

-----------------------------------------------------------------------------
(* C27 *)

\* C27: start with replace = true and force not set, on an id whose record is
\* still running, fails with an error containing "still running" and leaves the
\* running task and its record untouched.
C27_ReplaceRunning ==
    [][\A req \in Requests :
         /\ req.replace /\ ~req.force
         /\ req.id \in DOMAIN RunnerTasks
         /\ RunnerTasks[req.id].status = "running"
         /\ Starts(req)
         => /\ returned' = Returns("start", STILL_RUNNING)
            /\ NothingStarted]_vars

\* start with replace has been refused with "still running" on the one task
\* there is, which is running
C27_Witness ==
    /\ returned = Returns("start", STILL_RUNNING)
    /\ \E id \in RunnerIds :
         /\ DOMAIN RunnerTasks = {id}
         /\ RunnerTasks[id].status = "running"
         /\ children = {[id |-> id, pid |-> RunnerTasks[id].pid]}
         /\ RunnerTasks[id].pid \in alive

-----------------------------------------------------------------------------
(* C28 *)

\* the children the service tracks whose process is live
LiveChildren == {c \in children : c.pid \in alive}

\* no task has two live children
OneChildPerId == \A c, d \in LiveChildren : c.id = d.id => c = d

\* the step spawns the child of a request
SpawnsChild == spawned' # spawned

\* start has returned the record of the child it has spawned
HasStarted == returned.op = "start" /\ returned.error = ""

\* the task of the request is running after the step: its record, its child and
\* the process of the child
RunsAfter(req) ==
    /\ req.id \in DOMAIN RunnerTasks'
    /\ RunnerTasks'[req.id].status = "running"
    /\ [id |-> req.id, pid |-> RunnerTasks'[req.id].pid] \in children'
    /\ RunnerTasks'[req.id].pid \in alive'

\* the call of start the service is in the middle of was made with force on an
\* id whose record was active
ForcesOwnId == starting.pc = "stopping" /\ starting.req.force /\ starting.req.id \in starting.active

\* C28: start with force = true on an id whose record is running stops the old
\* process first and only then spawns the new one: the call spawns nothing while
\* it has the old task to stop, the old process is dead and its record ended when
\* the new child is spawned, no task ever has two live children, and the call
\* returns with the record of the id running.
C28_ForceReplace ==
    /\ []OneChildPerId
    /\ [][/\ \A req \in Requests :
               /\ req.force
               /\ req.id \in DOMAIN RunnerTasks
               /\ RunnerTasks[req.id].status = "running"
               /\ Starts(req)
               => /\ starting'.pc = "stopping"
                  /\ req.id \in starting'.toStop
                  /\ ~SpawnsChild
          /\ ForcesOwnId /\ SpawnsChild
               => /\ RunnerTasks[starting.req.id].status \in Ends
                  /\ RunnerTasks[starting.req.id].pid \notin alive
                  /\ RunsAfter(starting.req)
                  /\ returned' = Started(RunnerTasks[starting.req.id].status)
                  /\ OneChildPerId']_vars

\* start with force on the one task there is, which the service had spawned and
\* which was running, has stopped the task and is about to spawn: the old
\* process is dead and no child is tracked
C28_Witness ==
    /\ ForcesOwnId
    /\ starting.toStop = {}
    /\ DOMAIN RunnerTasks = {starting.req.id}
    /\ RunnerTasks[starting.req.id].status \in Ends
    /\ spawned = 1
    /\ children = {}
    /\ alive = {}

-----------------------------------------------------------------------------
(* C29 *)

\* forceByTags with a list of tags that is not empty
ByTags(req) == req.forceByTags /\ req.tags # {}

\* the tasks, other than the one of the request, that share a tag with it
Matches(req) == {id \in DOMAIN RunnerTasks \ {req.id} : SharesTag(RunnerTasks[id], req)}

\* the step leaves the tasks that share no tag with the request as they were:
\* their records and their processes
LeavesOthers(req) ==
    \A id \in DOMAIN RunnerTasks \ (Matches(req) \cup {req.id}) :
        /\ RunnerTasks'[id] = RunnerTasks[id]
        /\ RunnerTasks[id].pid \in alive <=> RunnerTasks[id].pid \in alive'

\* the child of a request is spawned with the tasks that were active at the call
\* and share a tag with it ended in one of these statuses, and runs
SpawnsAfterStops(req, active, ends) ==
    /\ \A id \in active \cap Matches(req) : RunnerTasks'[id].status \in ends
    /\ RunsAfter(req)

\* the step is one of the call of start the service is in the middle of: a stop,
\* or the spawn
Continues == starting.pc = "stopping" /\ starting' # starting

\* forceByTags as a whole, with the statuses the stopped tasks end in
ForceByTags(ends) ==
    /\ \A req \in Requests :
         ByTags(req) /\ Starts(req)
         => /\ LeavesOthers(req)
            /\ SpawnsChild => SpawnsAfterStops(req, ActiveIds(RunnerTasks), ends)
    /\ Continues /\ ByTags(starting.req)
         => /\ LeavesOthers(starting.req)
            /\ SpawnsChild => SpawnsAfterStops(starting.req, starting.active, ends)

\* C29 as claimed: the tasks that were running and share a tag with the request
\* are killed or stopped by the time the new task is running.
C29_ForceByTags_Claimed == [][ForceByTags({"killed", "stopped"})]_vars

\* C29: when start is called with forceByTags = true and a list of tags that is
\* not empty, every task that was running and shares at least one tag with the
\* request is in a terminal status (stopped, killed or failed) by the time the
\* new task is running, no step of the call touches a task that shares no tag,
\* and the record of the new task is running.
C29_ForceByTags == [][ForceByTags(Ends)]_vars

\* start with forceByTags has stopped the task that shared the tag with it, has
\* left the one that shares none running, and is about to spawn
C29_Witness ==
    /\ starting.pc = "stopping"
    /\ ByTags(starting.req)
    /\ ~starting.req.force
    /\ starting.toStop = {}
    /\ starting.req.id \notin DOMAIN RunnerTasks
    /\ \E id \in starting.active :
         /\ SharesTag(RunnerTasks[id], starting.req)
         /\ RunnerTasks[id].status \in Ends
         /\ RunnerTasks[id].pid \notin alive
    /\ \E id \in starting.active :
         /\ ~SharesTag(RunnerTasks[id], starting.req)
         /\ RunnerTasks[id].status = "running"
         /\ RunnerTasks[id].pid \in alive

-----------------------------------------------------------------------------
(* C30 *)

\* the statuses a record the service holds can have ended in
TERMINAL_STATUSES == {"stopped", "failed", "killed", "timeout", "lost"}

\* the record of the request's id is terminal
HasTerminal(req) ==
    /\ req.id \in DOMAIN RunnerTasks
    /\ RunnerTasks[req.id].status \in TERMINAL_STATUSES

\* the step spawns the child of the request in the place of the terminal record of
\* its id: nothing of the old record is left, and the task runs
Replaces(req) ==
    /\ SpawnsChild
    /\ RunsAfter(req)
    /\ RunnerTasks'[req.id] = Spawned(req, RunnerTasks'[req.id].pid, clock)
    /\ DOMAIN RunnerTasks' = DOMAIN RunnerTasks
    /\ returned' = Started(RunnerTasks[req.id].status)

\* C30: start with replace = true on an id whose record is in any terminal
\* status (stopped, failed, killed, timeout or lost, including a record that
\* recovery has just flipped from running to lost) removes the old record,
\* succeeds, and yields a record with the same id in status running; when it has
\* tasks to stop by their tags it does so once they are stopped.
C30_ReplaceTerminal ==
    [][/\ \A req \in Requests :
            req.replace /\ HasTerminal(req) /\ Starts(req)
            => \/ Replaces(req)
               \/ /\ req.forceByTags
                  /\ starting'.pc = "stopping"
                  /\ starting'.req = req
       /\ Continues /\ SpawnsChild /\ starting.req.replace /\ HasTerminal(starting.req)
            => Replaces(starting.req)]_vars

\* init has found the process of the running record of the state file dead and
\* has marked the record lost, and start with replace has put a running task in
\* its place
C30_Witness ==
    /\ HasStarted
    /\ returned.replaced = "lost"
    /\ spawned = 1
    /\ \E id \in RunnerIds :
         /\ DOMAIN RunnerTasks = {id}
         /\ RunnerTasks[id].status = "running"
         /\ children = {[id |-> id, pid |-> RunnerTasks[id].pid]}
         /\ alive = {RunnerTasks[id].pid}

-----------------------------------------------------------------------------
(* C40 *)

\* recoverTaskRunnerState is returning from its pass over the state file
RecoversFile ==
    /\ returned'.op = "recover"
    /\ clock' = clock + 1
    /\ taskRunnerState = NotLoaded

\* the pass has returned an empty task map
ReturnsEmpty(changed) ==
    /\ returned'.error = ""
    /\ taskRunnerState'.version = 1
    /\ taskRunnerState'.tasks = <<>>
    /\ returned'.changed = changed

\* the file has text that does not parse
NotJson == stateFile.text = "not json"

\* the file parses and its tasks field is no object (null, or of another type)
TasksNoObject == stateFile.text = "json" /\ (~stateFile.tasksIsObject \/ stateFile.tasksIsNull)

\* C40 as claimed: when the state file is missing, recovery returns an empty task
\* map and reports no change; when the file is not valid JSON, has a version
\* other than 1, or has a tasks field that is not an object, recovery returns an
\* empty task map and reports a change.
C40_BadStateFile_Claimed ==
    [][RecoversFile
       => /\ stateFile.text = "none" => ReturnsEmpty(FALSE)
          /\ \/ NotJson
             \/ stateFile.text = "json" /\ stateFile.version # 1
             \/ TasksNoObject
             => ReturnsEmpty(TRUE)]_vars

-----------------------------------------------------------------------------
(* C34 *)

\* the history of the task has a row that took it to approved
WasApproved(t) ==
    \E i \in 1..Len(task_status_history) :
        /\ task_status_history[i].task_id = t
        /\ task_status_history[i].to_status = "approved"

\* C34 as claimed: a task with requires_human_review = true is never in merging,
\* building or deploying unless its history contains a row with to_status
\* approved.
C34_ReviewGate_Claimed ==
    \A t \in TaskIds :
        /\ Task(t).requires_human_review
        /\ Task(t).status \in {"merging", "building", "deploying"}
        => WasApproved(t)

-----------------------------------------------------------------------------
(* C35 *)

\* the project has neither a build step nor a deploy step
NoPipeline == ~project.has_build_step /\ ~project.has_deploy_step

\* C35: once the status of a task is cancelled, no workflow action (task_merge
\* on a task without branching in a project with no build and no deploy step,
\* task_complete, task_unblock and task_cancel itself included) changes it again.
C35_CancelledAbsorbing ==
    [][\A t \in TaskIds :
         Task(t).status = "cancelled" => project_tasks'[t].status = "cancelled"]_vars

\* task_merge has been called on a cancelled task without branching in a project
\* with no build and no deploy step: task_complete has refused the transition and
\* the task is cancelled as before
C35_Witness ==
    /\ FailedWith("task_merge", TRANSITION_FAILED)
    /\ NoPipeline
    /\ \E t \in TaskIds :
         /\ result.taskId = t
         /\ ~Task(t).requires_branching
         /\ Task(t).status = "cancelled"
         /\ LastHistory(t).to_status = "cancelled"

-----------------------------------------------------------------------------
(* C38 *)

\* the task has the branch and the worktree that task_start has made for it
HasOwnWorktree(t) == Task(t).git_branch # NULL /\ Task(t).worktree_path # NULL

\* the call that is returning has invoked createWorktree
CreatesWorktree == \E outcome \in {"ok", "error"} : Git("createWorktree", outcome) \in result'.git

\* C38 as claimed: createWorktree is invoked at most once for a task: a
\* task_start on a task that already has git_branch and worktree_path (from
\* changes_requested) does not invoke it again.
C38_WorktreeOnce_Claimed ==
    [][\A t \in TaskIds :
         Calls("task_start", t) /\ HasOwnWorktree(t) => ~CreatesWorktree]_vars

-----------------------------------------------------------------------------
(* C39 *)

\* C39: with the has_build_step and has_deploy_step of the project as
\* project_create set them, no task of the project is in status building unless
\* has_build_step is true and none is in status deploying unless has_deploy_step
\* is true.
C39_PipelineFlags ==
    \A t \in TaskIds :
        /\ Task(t).status = "building" => project.has_build_step
        /\ Task(t).status = "deploying" => project.has_deploy_step

\* task_build has taken a task from building to deploying in a project that has
\* both steps
C39_Witness ==
    /\ Succeeded("task_build")
    /\ project.has_build_step /\ project.has_deploy_step
    /\ \E t \in TaskIds :
         /\ result.taskId = t
         /\ Task(t).status = "deploying"
         /\ LastHistory(t).from_status = "building"

-----------------------------------------------------------------------------
(* C31 *)

\* invocation p makes its conditional UPDATE and the UPDATE matches the row
Updates(p) == calls[p].pc = "transition_update" /\ calls'[p].pc = "transition_insert"

\* each row of the history of the task starts from the status the row before
\* it led to
Chained(history, t) ==
    LET rows == HistoryOf(history, t) IN
    \A i \in 1..(Len(rows) - 1) : rows[i + 1].from_status = rows[i].to_status

\* C31 as claimed: when workflow actions on the same task interleave at storage
\* calls, the from_status an invocation writes in its history row (the status it
\* loaded) is the status its conditional UPDATE replaces, and the history rows of
\* a task form a chain in which the from_status of each row is the to_status of
\* the row before it.
C31_HistoryChain_Claimed ==
    [][/\ \A p \in Procs :
            Updates(p) => calls[p].from = Task(calls[p].taskId).status
       /\ \A t \in TaskIds : Chained(task_status_history', t)]_vars

-----------------------------------------------------------------------------
(* C32 *)

\* invocation p, a task_block, makes the conditional UPDATE that blocks the task
Blocks(p) == Updates(p) /\ calls[p].action = "task_block"

\* invocation p, a task_unblock of a task that was blocked when the two
\* invocations began, makes the conditional UPDATE that unblocks it
Unblocks(p) == Updates(p) /\ calls[p].action = "task_unblock" /\ calls[p].began = "blocked"

\* the status the task held before it was blocked, for a task that was blocked
\* when the two invocations began: the from_status of the row that blocked it
HeldBeforeBlocked(p) == task_status_history[calls[p].rows].from_status

\* C32 as claimed: when task_block or task_unblock interleaves at storage calls
\* with another action on the same task (another transition, or a second
\* task_unblock), status_before_blocked holds the status the task has when the
\* UPDATE of task_block makes it blocked, and the UPDATE of a task_unblock that
\* succeeds restores the status the task held before it was blocked.
C32_BlockUnderInterleaving_Claimed ==
    [][\A p \in Procs :
         /\ Blocks(p) =>
              Task(calls[p].taskId).status_before_blocked = Task(calls[p].taskId).status
         /\ Unblocks(p) => project_tasks'[calls[p].taskId].status = HeldBeforeBlocked(p)]_vars

-----------------------------------------------------------------------------
(* C33 *)

\* the errors of an action that has found no task to act on, or not in a status
\* it acts from
REFUSALS == {"Task not found", "task is not blocked", TRANSITION_FAILED}

\* C33 as claimed: whenever a workflow action fails with "Task not found", "task
\* is not blocked" or "Task status transition failed ...", no statement of that
\* action has changed a column of the task row or appended a history row, also
\* when the failure is caused by another action interleaving.
C33_FailedLeavesUntouched_Claimed ==
    \A p \in Procs :
        calls[p].pc = "returned" /\ calls[p].error \in REFUSALS => ~calls[p].wrote

-----------------------------------------------------------------------------
(* C36: cmd_update and cmd_remove without force, interleaved with cmd_lock *)

\* invocation p of cmd_update or cmd_remove, called without force, runs its
\* UPDATE or its DELETE in this step
RunsStatement(p) ==
    /\ calls[p].action \in {"cmd_update", "cmd_remove"}
    /\ ~InputOr(calls[p].force, FALSE)
    /\ calls[p].pc = "execute"
    /\ calls'[p] # calls[p]

\* the stored row of the command has locked=1
LockWritten(commandId) ==
    /\ commandId \in DOMAIN project_commands
    /\ project_commands[commandId].locked

\* C36: when cmd_update or cmd_remove without force interleaves at the storage
\* calls with cmd_lock on the same command, its UPDATE or DELETE leaves the row
\* as it is once the row holds the lock
C36_LockUnderInterleaving_Claimed ==
    [][\A p \in Procs :
         RunsStatement(p) /\ LockWritten(calls[p].commandId)
             => project_commands' = project_commands]_vars

-----------------------------------------------------------------------------
(* C37: two project_update calls interleaved *)

\* invocation p of project_update runs its UPDATE in this step
UpdatesProject(p) ==
    /\ calls[p].action = "project_update"
    /\ calls[p].pc = "update"
    /\ calls'[p] # calls[p]

\* the stored state of the project stays or follows an edge of the table
FollowsEdge(projectId) ==
    \/ projects'[projectId].state = projects[projectId].state
    \/ projects'[projectId].state \in PROJECT_STATE_TRANSITIONS(projects[projectId].state)

\* the columns the input of p has no value for keep what the store holds, which
\* differs from what p loaded only where the other call has written since
KeepsOthersWrites(p) ==
    \A column \in DOMAIN PROJECT_COLUMNS :
        calls[p].input[PROJECT_COLUMNS[column]] = NULL
            => projects'[calls[p].projectId][column] = projects[calls[p].projectId][column]

\* C37: when two project_update calls on one project interleave at the storage
\* calls, every change of the stored state follows an edge of
\* PROJECT_STATE_TRANSITIONS, and no UPDATE puts back, over a value the other call
\* wrote, the value its handler had loaded
C37_ProjectStateUnderInterleaving_Claimed ==
    [][\A p \in Procs :
         UpdatesProject(p) => FollowsEdge(calls[p].projectId) /\ KeepsOthersWrites(p)]_vars

====
